---- MODULE Spec2Model ----
(***************************************************************************)
(* PhysikMA: fixed-step RK4 pendulum simulations (rk4.py, pendulum.py,     *)
(* pendulum3d.py, energy_utils.py, PhysikSim/rk4_test2.py).                *)
(*                                                                         *)
(* Numbers.  The program computes in IEEE 754 doubles.  The model computes *)
(* in a binary floating-point format of the same structure, scaled down:   *)
(* a finite value is an integer count of 1/SCALE units (the spacing of the *)
(* subnormal range) that has at most Prec significant bits, every          *)
(* operation rounds its exact result to the nearest such value (ties to    *)
(* even), a result beyond MaxFin overflows to an infinity, and invalid     *)
(* operations give NaN.  Infinities and NaN propagate as in IEEE 754       *)
(* (signed zeros are not distinguished).                                   *)
(***************************************************************************)
EXTENDS Integers, Sequences, FiniteSets, TLC

\* State: the frame of each caller's current simulation call (its locals),
\* one completed call that is remembered for comparison, and whether the
\* warning registry of module pendulum3d holds the key of its fallback warning;
\* a tree of widgets with the last call of set_state_recursive on it, and the
\* variables of the user interface that apply_impulse reads and writes
VARIABLES frame, ref, registry, widgets, gui

vars == <<frame, ref, registry, widgets, gui>>

\* ------------------------------------------------------------------------
\* Number domain
\* ------------------------------------------------------------------------
SCALE == 512
Prec == 6
MaxFin == 32767

PInf == MaxFin + 1
NInf == -(MaxFin + 1)
NaN == MaxFin + 2

IsNaN(a) == a = NaN
IsInf(a) == a = PInf \/ a = NInf
Finite(a) == a >= -MaxFin /\ a <= MaxFin

AbsI(n) == IF n < 0 THEN -n ELSE n
SgnI(n) == IF n < 0 THEN -1 ELSE IF n > 0 THEN 1 ELSE 0

\* spacing of the representable values at magnitude n >= 0
RECURSIVE Ulp(_)
Ulp(n) == IF n < 2 ^ Prec THEN 1 ELSE 2 * Ulp(n \div 2)

\* n/d (n >= 0, d > 0) rounded to the nearest integer, ties to even
RndE(n, d) ==
    LET q == n \div d
        r == n % d
    IN  IF 2 * r > d \/ (2 * r = d /\ q % 2 = 1) THEN q + 1 ELSE q

\* the rational n/d (d > 0) rounded to the nearest representable value
RoundRat(n, d) ==
    LET m == AbsI(n)
        u == Ulp(m \div d)
    IN  SgnI(n) * RndE(m, d * u) * u

\* n/d rounded to the nearest integer, ties away from zero (d > 0)
Rnd(n, d) == SgnI(n) * ((2 * AbsI(n) + d) \div (2 * d))

\* overflow of a rounded result to an infinity
Fl(n) == IF n > MaxFin THEN PInf ELSE IF n < -MaxFin THEN NInf ELSE n

\* Python numeric literals and int -> float conversion: the value p/q
Num(p, q) == Fl(RoundRat(p * SCALE, q))

Neg(a) == IF IsNaN(a) THEN NaN ELSE -a

Abs(a) == IF IsNaN(a) THEN NaN ELSE AbsI(a)

Add(a, b) ==
    IF IsNaN(a) \/ IsNaN(b) THEN NaN
    ELSE IF IsInf(a) THEN (IF IsInf(b) /\ b # a THEN NaN ELSE a)
    ELSE IF IsInf(b) THEN b
    ELSE Fl(RoundRat(a + b, 1))

Sub(a, b) == Add(a, Neg(b))

Mul(a, b) ==
    IF IsNaN(a) \/ IsNaN(b) THEN NaN
    ELSE IF IsInf(a) \/ IsInf(b)
         THEN (IF a = 0 \/ b = 0 THEN NaN
               ELSE IF SgnI(a) * SgnI(b) > 0 THEN PInf ELSE NInf)
    ELSE Fl(RoundRat(a * b, SCALE))

Div(a, b) ==
    IF IsNaN(a) \/ IsNaN(b) THEN NaN
    ELSE IF IsInf(a)
         THEN (IF IsInf(b) THEN NaN
               ELSE IF SgnI(a) * (IF b < 0 THEN -1 ELSE 1) > 0 THEN PInf ELSE NInf)
    ELSE IF IsInf(b) THEN 0
    ELSE IF b = 0
         THEN (IF a = 0 THEN NaN ELSE IF a > 0 THEN PInf ELSE NInf)
    ELSE Fl(SgnI(b) * RoundRat(a * SCALE, AbsI(b)))

\* floor of the square root of n, by bisection on lo..hi
RECURSIVE ISqrt(_, _, _)
ISqrt(n, lo, hi) ==
    IF lo >= hi THEN lo
    ELSE LET mid == (lo + hi + 1) \div 2
         IN  IF mid * mid <= n THEN ISqrt(n, mid, hi) ELSE ISqrt(n, lo, mid - 1)

\* np.sqrt: the square root rounded to the nearest representable value
Sqrt(a) ==
    IF IsNaN(a) \/ a < 0 THEN NaN
    ELSE IF a = PInf THEN PInf
    ELSE LET n == a * SCALE
             s == ISqrt(n, 0, MaxFin)
             u == Ulp(s)
             lo == (s \div u) * u
         IN  IF (2 * lo + u) * (2 * lo + u) < 4 * n THEN lo + u ELSE lo

\* x ** 2
Sq(a) == Mul(a, a)

\* ------------------------------------------------------------------------
\* Elementary functions (np.sin, np.cos, np.tan, np.arccos, np.arctan2):
\* the mathematical value, computed at the finer resolution 1/FINE and
\* rounded to the number domain.
\* ------------------------------------------------------------------------
FINE == SCALE * 8
Ratio == FINE \div SCALE
PiF == Rnd(355 * FINE, 113)
HalfPiF == Rnd(355 * FINE, 226)
TwoPiF == 2 * PiF

\* Taylor series of sine about 0 for |x| <= pi/2 (x, term, sum in 1/FINE)
RECURSIVE SinSeries(_, _, _, _)
SinSeries(x2, term, k, sum) ==
    IF term = 0 \/ k > 8 THEN sum
    ELSE LET nxt == -Rnd(Rnd(term * x2, FINE), (2 * k) * (2 * k + 1))
         IN  SinSeries(x2, nxt, k + 1, sum + nxt)

\* sine of xf/FINE in 1/FINE units, after reduction to [-pi/2, pi/2]
SinF(xf) ==
    LET m == ((xf + PiF) % TwoPiF) - PiF
        r == IF m > HalfPiF THEN PiF - m ELSE IF m < -HalfPiF THEN -PiF - m ELSE m
    IN  SinSeries(Rnd(r * r, FINE), r, 1, r)

CosF(xf) == SinF(xf + HalfPiF)

Sin(a) == IF ~Finite(a) THEN NaN ELSE RoundRat(SinF(a * Ratio), Ratio)
Cos(a) == IF ~Finite(a) THEN NaN ELSE RoundRat(CosF(a * Ratio), Ratio)
Tan(a) ==
    IF ~Finite(a) THEN NaN
    ELSE LET s == SinF(a * Ratio)
             c == CosF(a * Ratio)
         IN  IF c = 0 THEN (IF s < 0 THEN NInf ELSE PInf)
             ELSE Fl(SgnI(c) * RoundRat(s * SCALE, AbsI(c)))

\* pi in units, the upper end of the angle searches below
PiU == Rnd(PiF, Ratio)
\* np.pi
PiV == RoundRat(PiF, Ratio)

\* least a in lo..hi with CosF(a) <= target (the cosine decreases on [0, pi])
RECURSIVE ACosSearch(_, _, _)
ACosSearch(target, lo, hi) ==
    IF lo >= hi THEN lo
    ELSE LET mid == (lo + hi) \div 2
         IN  IF CosF(mid * Ratio) <= target THEN ACosSearch(target, lo, mid)
             ELSE ACosSearch(target, mid + 1, hi)

\* np.arccos: the angle in [0, pi] whose cosine is c; NaN outside [-1, 1]
ArcCos(c) ==
    IF ~Finite(c) \/ c > SCALE \/ c < -SCALE THEN NaN
    ELSE LET a == ACosSearch(c * Ratio, 0, PiU)
         IN  IF a > 0 /\ AbsI(CosF((a - 1) * Ratio) - c * Ratio) <= AbsI(CosF(a * Ratio) - c * Ratio)
             THEN RoundRat(a - 1, 1) ELSE RoundRat(a, 1)

\* least a in lo..hi at or past the direction (x, y), y >= 0
RECURSIVE ATanSearch(_, _, _, _)
ATanSearch(y, x, lo, hi) ==
    IF lo >= hi THEN lo
    ELSE LET mid == (lo + hi) \div 2
         IN  IF x * SinF(mid * Ratio) - y * CosF(mid * Ratio) >= 0
             THEN ATanSearch(y, x, lo, mid)
             ELSE ATanSearch(y, x, mid + 1, hi)

ATanUpper(y, x) ==
    LET a == ATanSearch(y, x, 0, PiU)
        cross(b) == AbsI(x * SinF(b * Ratio) - y * CosF(b * Ratio))
    IN  IF a > 0 /\ cross(a - 1) <= cross(a) THEN RoundRat(a - 1, 1) ELSE RoundRat(a, 1)

\* np.arctan2(y, x): the angle of the point (x, y) in [-pi, pi]
ArcTan2(y, x) ==
    IF IsNaN(y) \/ IsNaN(x) THEN NaN
    ELSE IF IsInf(y)
         THEN SgnI(y) * (IF x = PInf THEN RoundRat(PiF, 4 * Ratio)
                         ELSE IF x = NInf THEN RoundRat(3 * PiF, 4 * Ratio)
                         ELSE RoundRat(PiF, 2 * Ratio))
    ELSE IF IsInf(x)
         THEN (IF x = PInf THEN 0 ELSE IF y < 0 THEN -PiV ELSE PiV)
    ELSE IF y = 0 THEN (IF x >= 0 THEN 0 ELSE PiV)
    ELSE IF y > 0 THEN ATanUpper(y, x)
    ELSE -ATanUpper(-y, x)

\* ------------------------------------------------------------------------
\* Arrays (numpy vectors) as sequences, indexed from 1
\* ------------------------------------------------------------------------
Two == Num(2, 1)
Six == Num(6, 1)
Half == Num(1, 2)
One == Num(1, 1)

VAdd(u, v) == [j \in DOMAIN u |-> Add(u[j], v[j])]
VSub(u, v) == [j \in DOMAIN u |-> Sub(u[j], v[j])]
VScale(s, v) == [j \in DOMAIN v |-> Mul(s, v[j])]
VDiv(v, s) == [j \in DOMAIN v |-> Div(v[j], s)]

\* (mutant) the arrays are allocated one entry longer than the time grid
ZerosLikeLonger(t) == [j \in 1..(Len(t) + 1) |-> 0]

\* np.zeros_like(t_values)
ZerosLike(t) == [j \in 1..Len(t) |-> 0]

\* ceil of a finite value, as an integer
CeilInt(v) == -((-v) \div SCALE)

\* the float (stop - 0)/step of which np.arange takes the ceiling: rounded
\* like every quotient, but a count of samples is far inside the range of
\* a double, so the range MaxFin of the number domain is not applied to it
ArangeQuotient(stop, step) ==
    IF Finite(stop) /\ Finite(step) /\ step # 0
    THEN SgnI(step) * RoundRat(stop * SCALE, AbsI(step))
    ELSE Div(stop, step)

\* np.arange(0, stop, step): ceil((stop - 0)/step) entries, the i-th
\* 0 + i*step with the integer i converted exactly
Arange(stop, step) ==
    LET n == CeilInt(ArangeQuotient(stop, step))
    IN  [j \in 1..(IF n > 0 THEN n ELSE 0) |-> Fl(RoundRat((j - 1) * step, 1))]

\* ------------------------------------------------------------------------
\* The derivative functions the models pass to rk4_step.  Each is a closure
\* over the arguments a of the call that defines it; a function value is
\* the record of its kind and of those arguments, and Call applies it.
\* ------------------------------------------------------------------------
\* comparisons of floats: any comparison with NaN is false
Lt(a, b) == ~IsNaN(a) /\ ~IsNaN(b) /\ a < b
Gt(a, b) == ~IsNaN(a) /\ ~IsNaN(b) /\ a > b

\* np.dot of two 3-vectors and np.linalg.norm
Dot3(u, v) == Add(Add(Mul(u[1], v[1]), Mul(u[2], v[2])), Mul(u[3], v[3]))
Norm3(u) == Sqrt(Dot3(u, u))

\* pendulum.py, run.derivative
PlanarDerivative(a, t, state) ==
    LET phi == state[1]
        omega == state[2]
    IN  << omega,
           Sub(Mul(Neg(Div(a.g, a.L)), Sin(phi)),
               Mul(Mul(a.air_resistance, omega), Abs(omega))) >>

\* PhysikSim/rk4_test2.py, derivative
Rk4Test2Derivative(t, x) == <<One>>

\* (mutant) the drag coefficient is a module-level variable: the derivative
\* reads the one set by another call that is under way
CartDerivativeGlobalDrag(a, t, st) ==
    LET others == {d \in DOMAIN frame :
                      frame[d].pc = "loop"
                          /\ frame[d].args.air_resistance # a.air_resistance}
        b == IF others = {} THEN a.air_resistance
             ELSE frame[CHOOSE d \in others : TRUE].args.air_resistance
        r == <<st[1], st[2], st[3]>>
        v == <<st[4], st[5], st[6]>>
        speed_sq == Dot3(v, v)
        c == Div(Sub(speed_sq, Mul(a.g, st[3])), Sq(a.L))
        accel == VSub(<<0, 0, Neg(a.g)>>, VScale(c, r))
        drag == [j \in 1..3 |-> Mul(Mul(b, v[j]), Norm3(v))]
        acc == IF b # 0 THEN VSub(accel, drag) ELSE accel
    IN  <<st[4], st[5], st[6], acc[1], acc[2], acc[3]>>

\* (mutant) the tension balances the centripetal term alone, without the
\* component of gravity along the rod
CartDerivativeNoGravityAlongRod(a, t, st) ==
    LET r == <<st[1], st[2], st[3]>>
        v == <<st[4], st[5], st[6]>>
        speed_sq == Dot3(v, v)
        c == Div(speed_sq, Sq(a.L))
        accel == VSub(<<0, 0, Neg(a.g)>>, VScale(c, r))
        drag == [j \in 1..3 |-> Mul(Mul(a.air_resistance, v[j]), Norm3(v))]
        acc == IF a.air_resistance # 0 THEN VSub(accel, drag) ELSE accel
    IN  <<st[4], st[5], st[6], acc[1], acc[2], acc[3]>>

\* pendulum3d.py, run_cartesian.derivative
CartDerivative(a, t, st) ==
    LET r == <<st[1], st[2], st[3]>>
        v == <<st[4], st[5], st[6]>>
        speed_sq == Dot3(v, v)
        c == Div(Sub(speed_sq, Mul(a.g, st[3])), Sq(a.L))
        accel == VSub(<<0, 0, Neg(a.g)>>, VScale(c, r))
        drag == [j \in 1..3 |-> Mul(Mul(a.air_resistance, v[j]), Norm3(v))]
        acc == IF a.air_resistance # 0 THEN VSub(accel, drag) ELSE accel
    IN  <<st[4], st[5], st[6], acc[1], acc[2], acc[3]>>

\* (mutant) a driven pendulum: the polar acceleration grows with the time
SphDerivativeDriven(a, t, state) ==
    LET theta == state[1]
        theta_dot == state[3]
        phi_dot == state[4]
    IN  << theta_dot,
           phi_dot,
           Add(Sub(Sub(Mul(Mul(Sin(theta), Cos(theta)), Sq(phi_dot)),
                       Mul(Div(a.g, a.L), Sin(theta))),
                   Mul(Mul(a.air_resistance, theta_dot), Abs(theta_dot))),
               t),
           Sub(Div(Mul(Mul(Neg(Two), theta_dot), phi_dot), Tan(theta)),
               Mul(Mul(a.air_resistance, phi_dot), Abs(phi_dot))) >>

\* pendulum3d.py, run.derivative
SphDerivative(a, t, state) ==
    LET theta == state[1]
        theta_dot == state[3]
        phi_dot == state[4]
    IN  << theta_dot,
           phi_dot,
           Sub(Sub(Mul(Mul(Sin(theta), Cos(theta)), Sq(phi_dot)),
                   Mul(Div(a.g, a.L), Sin(theta))),
               Mul(Mul(a.air_resistance, theta_dot), Abs(theta_dot))),
           Sub(Div(Mul(Mul(Neg(Two), theta_dot), phi_dot), Tan(theta)),
               Mul(Mul(a.air_resistance, phi_dot), Abs(phi_dot))) >>

\* f(t, state) for a function value f
Call(f, t, state) ==
    CASE f.kind = "planar" -> PlanarDerivative(f.a, t, state)
      [] f.kind = "rk4test2" -> Rk4Test2Derivative(t, state)
      [] f.kind = "cartesian" -> CartDerivative(f.a, t, state)
      [] f.kind = "spherical" -> SphDerivative(f.a, t, state)

\* ------------------------------------------------------------------------
\* rk4.py
\* ------------------------------------------------------------------------
\* (mutant) the weighted sum without the weights of k2 and k3
Rk4CombineUnweighted(state, k1, k2, k3, k4) ==
    VAdd(state, VDiv(VAdd(VAdd(VAdd(k1, k2), k3), k4), Six))

\* (mutant) the weighted sum is not divided by 6
Rk4CombineUndivided(state, k1, k2, k3, k4) ==
    VAdd(state, VAdd(VAdd(VAdd(k1, VScale(Two, k2)), VScale(Two, k3)), k4))

\* the value rk4_step returns
Rk4Combine(state, k1, k2, k3, k4) ==
    VAdd(state,
         VDiv(VAdd(VAdd(VAdd(k1, VScale(Two, k2)), VScale(Two, k3)), k4), Six))

\* one evaluation of f by rk4_step: the arguments of the call and h times
\* the value it returned
Rk4Eval(f, t, state, h) == [at |-> <<t, state>>, k |-> VScale(h, Call(f, t, state))]

\* rk4_step once k1..k4 are known: the arguments of the four calls of f, in
\* order, and the returned state
Rk4Result(state, e1, e2, e3, e4) ==
    [calls |-> <<e1.at, e2.at, e3.at, e4.at>>,
     ret |-> Rk4Combine(state, e1.k, e2.k, e3.k, e4.k)]

\* rk4_step from its fourth, third and second evaluation on, given the
\* earlier ones
Rk4From4(f, t, state, h, e1, e2, e3) ==
    Rk4Result(state, e1, e2, e3, Rk4Eval(f, Add(t, h), VAdd(state, e3.k), h))

Rk4From3(f, t, state, h, e1, e2) ==
    Rk4From4(f, t, state, h, e1, e2,
             Rk4Eval(f, Add(t, Div(h, Two)), VAdd(state, VDiv(e2.k, Two)), h))

Rk4From2(f, t, state, h, e1) ==
    Rk4From3(f, t, state, h, e1,
             Rk4Eval(f, Add(t, Div(h, Two)), VAdd(state, VDiv(e1.k, Two)), h))

\* the four stages of rk4_step
Rk4Stages(f, t, state, h) == Rk4From2(f, t, state, h, Rk4Eval(f, t, state, h))

rk4_step(f, t, state, h) == Rk4Stages(f, t, state, h).ret

\* ------------------------------------------------------------------------
\* energy_utils.py
\* ------------------------------------------------------------------------
pendulum_energy(phi, omega, L, g) ==
    Add(Mul(Mul(Half, Sq(L)), Sq(omega)),
        Mul(Mul(g, L), Sub(One, Cos(phi))))

spherical_energy(theta, theta_dot, phi_dot, L, g) ==
    Add(Mul(Mul(Half, Sq(L)),
            Add(Sq(theta_dot), Mul(Sq(Sin(theta)), Sq(phi_dot)))),
        Mul(Mul(g, L), Sub(One, Cos(theta))))

\* ------------------------------------------------------------------------
\* pendulum.py
\* ------------------------------------------------------------------------
\* kinetic + potential as run computes them inline
PlanarEnergy(a, phi, omega) ==
    Add(Mul(Mul(Half, Sq(a.L)), Sq(omega)),
        Mul(Mul(a.g, a.L), Sub(One, Cos(phi))))

\* the frame of a simulation call that has not been made.  Of a call under
\* way it holds the locals: the arguments, the time grid t, the loop index
\* i, the current state, the arrays being filled; of the last rk4_step call
\* the state passed in (prev), the arguments of its calls of f (calls) and
\* the value it returned (raw); the count of calls of each derivative;
\* whether a warning issued by the call was shown (shown); of a call that
\* ended with an exception (pc "raised"), the statement that raised (err).
NoFrame ==
    [pc |-> "idle", fn |-> "none", path |-> "none", args |-> <<>>, i |-> 0,
     state |-> <<>>, t |-> <<>>, arr |-> <<>>, calls |-> <<>>, prev |-> <<>>,
     raw |-> <<>>,
     nSph |-> 0, nCart |-> 0, nPlanar |-> 0, shown |-> FALSE, err |-> "none",
     ret |-> <<>>]

\* the frame of a call of fn that an exception has ended
RaiseIn(fn, a, e) == [NoFrame EXCEPT !.pc = "raised", !.fn = fn, !.args = a, !.err = e]

\* the exception of the set-up all three models share, if any: np.arange
\* raises for a step of 0, and storing sample 0 into the arrays raises
\* IndexError when the time grid is empty
SetupError(a) ==
    IF a.h = 0 THEN "arange"
    ELSE IF Len(Arange(Add(a.t_final, a.h), a.h)) = 0 THEN "sample0"
    ELSE "none"

\* pendulum.run up to the loop: time grid, zeroed arrays, sample 0
PlanarEnter(a) ==
    IF SetupError(a) # "none" THEN RaiseIn("pendulum.run", a, SetupError(a))
    ELSE
    LET t == Arange(Add(a.t_final, a.h), a.h)
        state == <<a.phi0, 0>>
        z == ZerosLike(t)
    IN  [NoFrame EXCEPT
            !.pc = "loop", !.fn = "pendulum.run", !.path = "planar", !.args = a,
            !.t = t, !.state = state,
            !.arr = [phi |-> [z EXCEPT ![1] = state[1]],
                     omega |-> [z EXCEPT ![1] = state[2]],
                     energy |-> [z EXCEPT ![1] = PlanarEnergy(a, state[1], state[2])]]]

\* (mutant) the energy of sample i + 1 is computed before the state is
\* replaced by the one rk4_step returned
PlanarStoreStaleEnergy(fr, r) ==
    [fr EXCEPT
        !.state = r.ret, !.calls = r.calls, !.prev = fr.state, !.raw = r.ret,
        !.nPlanar = @ + Len(r.calls),
        !.arr = [phi |-> [fr.arr.phi EXCEPT ![fr.i + 2] = r.ret[1]],
                 omega |-> [fr.arr.omega EXCEPT ![fr.i + 2] = r.ret[2]],
                 energy |-> [fr.arr.energy EXCEPT
                                ![fr.i + 2] = PlanarEnergy(fr.args, fr.state[1], fr.state[2])]],
        !.i = @ + 1]

\* the rest of an iteration of the loop of pendulum.run once rk4_step has
\* returned r
PlanarStore(fr, r) ==
    [fr EXCEPT
        !.state = r.ret, !.calls = r.calls, !.prev = fr.state, !.raw = r.ret,
        !.nPlanar = @ + Len(r.calls),
        !.arr = [phi |-> [fr.arr.phi EXCEPT ![fr.i + 2] = r.ret[1]],
                 omega |-> [fr.arr.omega EXCEPT ![fr.i + 2] = r.ret[2]],
                 energy |-> [fr.arr.energy EXCEPT
                                ![fr.i + 2] = PlanarEnergy(fr.args, r.ret[1], r.ret[2])]],
        !.i = @ + 1]

\* one iteration of the loop of pendulum.run; g / L in the derivative is a
\* division of Python floats, which raises ZeroDivisionError for L = 0
PlanarStep(fr) ==
    IF fr.args.L = 0 THEN [fr EXCEPT !.pc = "raised", !.err = "derivative"]
    ELSE
    PlanarStore(fr, Rk4Stages([kind |-> "planar", a |-> fr.args], fr.t[fr.i + 1],
                              fr.state, fr.args.h))

PlanarReturn(fr) ==
    [fr EXCEPT !.pc = "done",
               !.ret = [t |-> fr.t, phi |-> fr.arr.phi, omega |-> fr.arr.omega,
                        energy |-> fr.arr.energy]]

\* ------------------------------------------------------------------------
\* PhysikSim/rk4_test2.py
\* ------------------------------------------------------------------------
Rk4Test2T0 == 0
Rk4Test2X0 == Num(5, 1)
Rk4Test2H == Num(1, 10)
Rk4Test2TFinal == Num(5, 1)

\* int(v): truncation toward zero of a finite value
IntOf(v) == SgnI(v) * (AbsI(v) \div SCALE)

Rk4Test2Enter ==
    LET n_steps == IntOf(Div(Sub(Rk4Test2TFinal, Rk4Test2T0), Rk4Test2H))
        z == [j \in 1..(n_steps + 1) |-> 0]
    IN  [NoFrame EXCEPT
            !.pc = "loop", !.fn = "rk4_test2.run", !.path = "rk4test2",
            !.t = [z EXCEPT ![1] = Rk4Test2T0],
            !.arr = [x |-> [z EXCEPT ![1] = Rk4Test2X0]]]

\* the rest of an iteration of the loop of rk4_test2.run once rk4_step has
\* returned r
Rk4Test2Store(fr, r) ==
    [fr EXCEPT
        !.calls = r.calls, !.prev = <<fr.arr.x[fr.i + 1]>>, !.raw = r.ret,
        !.arr = [x |-> [fr.arr.x EXCEPT ![fr.i + 2] = r.ret[1]]],
        !.t = [fr.t EXCEPT ![fr.i + 2] = Add(fr.t[fr.i + 1], Rk4Test2H)],
        !.i = @ + 1]

\* one iteration of the loop of rk4_test2.run
Rk4Test2Step(fr) ==
    Rk4Test2Store(fr, Rk4Stages([kind |-> "rk4test2", a |-> <<>>], fr.t[fr.i + 1],
                                <<fr.arr.x[fr.i + 1]>>, Rk4Test2H))

Rk4Test2Return(fr) ==
    [fr EXCEPT !.pc = "done", !.ret = [t |-> fr.t, x |-> fr.arr.x]]

\* ------------------------------------------------------------------------
\* pendulum3d.py: run_cartesian
\* ------------------------------------------------------------------------
\* (mutant) the vertical velocity has the sign of d/dt (-L cos(theta))
CartInitStateRisingVz(a) ==
    LET st == Sin(a.theta0)
        ct == Cos(a.theta0)
        sp == Sin(a.phi0)
        cp == Cos(a.phi0)
        x0 == Mul(Mul(a.L, st), cp)
        y0 == Mul(Mul(a.L, st), sp)
        z0 == Mul(Neg(a.L), ct)
        vx0 == Mul(a.L, Sub(Mul(Mul(a.theta_dot0, ct), cp),
                            Mul(Mul(a.phi_dot0, st), sp)))
        vy0 == Mul(a.L, Add(Mul(Mul(a.theta_dot0, ct), sp),
                            Mul(Mul(a.phi_dot0, st), cp)))
        vz0 == Mul(Mul(a.L, a.theta_dot0), st)
    IN  <<x0, y0, z0, Add(vx0, a.force_x), Add(vy0, a.force_y), Add(vz0, a.force_z)>>

\* initial conditions converted to Cartesian coordinates, impulse added
CartInitState(a) ==
    LET st == Sin(a.theta0)
        ct == Cos(a.theta0)
        sp == Sin(a.phi0)
        cp == Cos(a.phi0)
        x0 == Mul(Mul(a.L, st), cp)
        y0 == Mul(Mul(a.L, st), sp)
        z0 == Mul(Neg(a.L), ct)
        vx0 == Mul(a.L, Sub(Mul(Mul(a.theta_dot0, ct), cp),
                            Mul(Mul(a.phi_dot0, st), sp)))
        vy0 == Mul(a.L, Add(Mul(Mul(a.theta_dot0, ct), sp),
                            Mul(Mul(a.phi_dot0, st), cp)))
        vz0 == Mul(Mul(Neg(a.L), a.theta_dot0), st)
    IN  <<x0, y0, z0, Add(vx0, a.force_x), Add(vy0, a.force_y), Add(vz0, a.force_z)>>

\* run_cartesian.calc_energy
CartEnergy(a, st) ==
    Add(Mul(Half, Add(Add(Sq(st[4]), Sq(st[5])), Sq(st[6]))),
        Mul(a.g, Add(st[3], a.L)))

\* (mutant) the velocity is projected along the position before it was
\* put back onto the sphere
CartProjectStaleRadius(a, st) ==
    LET r0 == <<st[1], st[2], st[3]>>
        v0 == <<st[4], st[5], st[6]>>
        r == VDiv(VScale(a.L, r0), Norm3(r0))
        v == VSub(v0, VScale(Div(Dot3(r0, v0), Sq(a.L)), r0))
    IN  <<r[1], r[2], r[3], v[1], v[2], v[3]>>

\* the constraint enforcement after each step: r back onto the sphere, the
\* radial part of v removed
CartProject(a, st) ==
    LET r0 == <<st[1], st[2], st[3]>>
        v0 == <<st[4], st[5], st[6]>>
        r == VDiv(VScale(a.L, r0), Norm3(r0))
        v == VSub(v0, VScale(Div(Dot3(r, v0), Sq(a.L)), r))
    IN  <<r[1], r[2], r[3], v[1], v[2], v[3]>>

\* (mutant) the recorded velocities are views of the state vector: writing
\* sample k also overwrites the velocities of sample k - 1
CartRecordAliased(a, arr, k, st) ==
    LET put(v, j) ==
            [n \in DOMAIN v |-> IF n = k \/ (n = k - 1 /\ n > 1) THEN st[j] ELSE v[n]]
    IN  [x |-> [arr.x EXCEPT ![k] = st[1]], y |-> [arr.y EXCEPT ![k] = st[2]],
         z |-> [arr.z EXCEPT ![k] = st[3]], vx |-> put(arr.vx, 4),
         vy |-> put(arr.vy, 5), vz |-> put(arr.vz, 6),
         energy |-> [arr.energy EXCEPT ![k] = CartEnergy(a, st)]]

\* the arrays of run_cartesian with sample k (from 1) set from the state
CartRecord(a, arr, k, st) ==
    [x |-> [arr.x EXCEPT ![k] = st[1]], y |-> [arr.y EXCEPT ![k] = st[2]],
     z |-> [arr.z EXCEPT ![k] = st[3]], vx |-> [arr.vx EXCEPT ![k] = st[4]],
     vy |-> [arr.vy EXCEPT ![k] = st[5]], vz |-> [arr.vz EXCEPT ![k] = st[6]],
     energy |-> [arr.energy EXCEPT ![k] = CartEnergy(a, st)]]

\* run_cartesian up to the loop
CartEnter(a) ==
    IF SetupError(a) # "none" THEN RaiseIn("run_cartesian", a, SetupError(a))
    ELSE
    LET state == CartInitState(a)
        t == Arange(Add(a.t_final, a.h), a.h)
        z == ZerosLike(t)
    IN  [NoFrame EXCEPT
            !.pc = "loop", !.fn = "run_cartesian", !.path = "cartesian", !.args = a,
            !.t = t, !.state = state,
            !.arr = CartRecord(a, [x |-> z, y |-> z, z |-> z, vx |-> z, vy |-> z,
                                   vz |-> z, energy |-> z], 1, state)]

\* the end of an iteration of the loop of run_cartesian: the projected
\* state becomes the current state and is recorded as sample i + 1
CartStore(fr, r, state) ==
    [fr EXCEPT
        !.state = state, !.calls = r.calls, !.prev = fr.state, !.raw = r.ret,
        !.nCart = @ + Len(r.calls),
        !.arr = CartRecord(fr.args, fr.arr, fr.i + 2, state),
        !.i = @ + 1]

\* the rest of an iteration once rk4_step has returned r
CartProjectAndStore(fr, r) == CartStore(fr, r, CartProject(fr.args, r.ret))

\* one iteration of the loop of run_cartesian
CartStep(fr) ==
    CartProjectAndStore(fr, Rk4Stages([kind |-> "cartesian", a |-> fr.args],
                                      fr.t[fr.i + 1], fr.state, fr.args.h))

CartResult(fr) ==
    [t |-> fr.t, x |-> fr.arr.x, y |-> fr.arr.y, z |-> fr.arr.z, vx |-> fr.arr.vx,
     vy |-> fr.arr.vy, vz |-> fr.arr.vz, energy |-> fr.arr.energy]

CartReturn(fr) == [fr EXCEPT !.pc = "done", !.ret = CartResult(fr)]

\* ------------------------------------------------------------------------
\* pendulum3d.py: run
\* ------------------------------------------------------------------------
\* thresholds of the singularity guard and of the phi_dot mask, in units
SingEps == 32
MaskEps == 1

\* (mutant) the guard tests the angle itself and misses the upper pole
DelegatesNearZero(a) == Lt(Abs(a.theta0), SingEps)

\* (mutant) the guard tests sin(theta0) against 0
DelegatesAtZero(a) == Sin(a.theta0) = 0

\* the guard at the head of run
Delegates(a) == Lt(Abs(Sin(a.theta0)), SingEps)

HasImpulse(a) == a.force_x # 0 \/ a.force_y # 0 \/ a.force_z # 0

\* (mutant) the projected impulse is added without the division by the
\* length of the rod
SphInitStateUndivided(a) ==
    LET st == Sin(a.theta0)
        ct == Cos(a.theta0)
        sp == Sin(a.phi0)
        cp == Cos(a.phi0)
        f_theta == Add(Add(Mul(Mul(a.force_x, ct), cp), Mul(Mul(a.force_y, ct), sp)),
                       Mul(a.force_z, st))
        f_phi == Add(Mul(Neg(a.force_x), sp), Mul(a.force_y, cp))
    IN  IF HasImpulse(a)
        THEN <<a.theta0, a.phi0, Add(a.theta_dot0, f_theta),
               Add(a.phi_dot0, Div(f_phi, st))>>
        ELSE <<a.theta0, a.phi0, a.theta_dot0, a.phi_dot0>>

\* the initial state of the spherical loop, the impulse projected onto the
\* theta and phi directions at t = 0
SphInitState(a) ==
    LET st == Sin(a.theta0)
        ct == Cos(a.theta0)
        sp == Sin(a.phi0)
        cp == Cos(a.phi0)
        f_theta == Add(Add(Mul(Mul(a.force_x, ct), cp), Mul(Mul(a.force_y, ct), sp)),
                       Mul(a.force_z, st))
        f_phi == Add(Mul(Neg(a.force_x), sp), Mul(a.force_y, cp))
    IN  IF HasImpulse(a)
        THEN <<a.theta0, a.phi0, Add(a.theta_dot0, Div(f_theta, a.L)),
               Add(a.phi_dot0, Div(f_phi, Mul(a.L, st)))>>
        ELSE <<a.theta0, a.phi0, a.theta_dot0, a.phi_dot0>>

SphRecord(a, arr, k, st) ==
    [theta |-> [arr.theta EXCEPT ![k] = st[1]], phi |-> [arr.phi EXCEPT ![k] = st[2]],
     theta_dot |-> [arr.theta_dot EXCEPT ![k] = st[3]],
     phi_dot |-> [arr.phi_dot EXCEPT ![k] = st[4]],
     energy |-> [arr.energy EXCEPT
                    ![k] = spherical_energy(st[1], st[3], st[4], a.L, a.g)]]

\* warnings.warn(message, RuntimeWarning) at the one place that warns, under
\* the filters the interpreter starts with (the module installs none): the
\* message is shown unless the registry of the module already holds the key
\* of this message, category and line, which it holds from then on
WarnOnce(reg) == [shown |-> ~reg, registry |-> TRUE]

\* the guard of run: a start near a pole warns
FallbackWarning(a, reg) ==
    IF Delegates(a) THEN WarnOnce(reg) ELSE [shown |-> FALSE, registry |-> reg]

\* (mutant) the call of run_cartesian leaves the impulse out
ForwardArgsNoImpulse(a) ==
    [L |-> a.L, theta0 |-> a.theta0, phi0 |-> a.phi0, theta_dot0 |-> a.theta_dot0,
     phi_dot0 |-> a.phi_dot0, g |-> a.g, h |-> a.h, t_final |-> a.t_final,
     air_resistance |-> a.air_resistance, force_x |-> 0, force_y |-> 0, force_z |-> 0]

\* the keyword arguments run passes to run_cartesian
ForwardArgs(a) ==
    [L |-> a.L, theta0 |-> a.theta0, phi0 |-> a.phi0, theta_dot0 |-> a.theta_dot0,
     phi_dot0 |-> a.phi_dot0, g |-> a.g, h |-> a.h, t_final |-> a.t_final,
     air_resistance |-> a.air_resistance, force_x |-> a.force_x,
     force_y |-> a.force_y, force_z |-> a.force_z]

\* run up to its loop: either the call of run_cartesian (whose loop then
\* runs in this frame) or the spherical set-up
SphEnter(a) ==
    IF Delegates(a)
    THEN [CartEnter(ForwardArgs(a)) EXCEPT !.fn = "pendulum3d.run", !.args = a]
    ELSE IF SetupError(a) # "none" THEN RaiseIn("pendulum3d.run", a, SetupError(a))
    ELSE LET t == Arange(Add(a.t_final, a.h), a.h)
             z == ZerosLike(t)
             state == SphInitState(a)
         IN  [NoFrame EXCEPT
                !.pc = "loop", !.fn = "pendulum3d.run", !.path = "spherical",
                !.args = a, !.t = t, !.state = state,
                !.arr = SphRecord(a, [theta |-> z, phi |-> z, theta_dot |-> z,
                                      phi_dot |-> z, energy |-> z], 1, state)]

\* the rest of an iteration of the spherical loop once rk4_step has
\* returned r
SphStore(fr, r) ==
    [fr EXCEPT
        !.state = r.ret, !.calls = r.calls, !.prev = fr.state, !.raw = r.ret,
        !.nSph = @ + Len(r.calls),
        !.arr = SphRecord(fr.args, fr.arr, fr.i + 2, r.ret),
        !.i = @ + 1]

\* one iteration of the spherical loop of run; g / L in the derivative is
\* a division of Python floats, which raises ZeroDivisionError for L = 0
SphStep(fr) ==
    IF fr.args.L = 0 THEN [fr EXCEPT !.pc = "raised", !.err = "derivative"]
    ELSE
    SphStore(fr, Rk4Stages([kind |-> "spherical", a |-> fr.args], fr.t[fr.i + 1],
                           fr.state, fr.args.h))

\* (mutant) the conversion divides by sin(theta) at every sample
ToSphericalUnmasked(L, res) ==
    LET n == Len(res.t)
        theta == [k \in 1..n |-> ArcCos(Div(Neg(res.z[k]), L))]
        phi == [k \in 1..n |-> ArcTan2(res.y[k], res.x[k])]
        theta_dot ==
            [k \in 1..n |->
                Div(Sub(Add(Mul(Mul(res.vx[k], Cos(theta[k])), Cos(phi[k])),
                            Mul(Mul(res.vy[k], Cos(theta[k])), Sin(phi[k]))),
                        Mul(res.vz[k], Sin(theta[k]))),
                    L)]
        phi_dot ==
            [k \in 1..n |->
                Div(Add(Mul(Neg(res.vx[k]), Sin(phi[k])),
                        Mul(res.vy[k], Cos(phi[k]))),
                    Mul(L, Sin(theta[k])))]
    IN  [t |-> res.t, theta |-> theta, phi |-> phi, theta_dot |-> theta_dot,
         phi_dot |-> phi_dot, energy |-> res.energy]

\* the conversion of the trajectory returned by run_cartesian to angles
ToSpherical(L, res) ==
    LET n == Len(res.t)
        theta == [k \in 1..n |-> ArcCos(Div(Neg(res.z[k]), L))]
        phi == [k \in 1..n |-> ArcTan2(res.y[k], res.x[k])]
        theta_dot ==
            [k \in 1..n |->
                Div(Sub(Add(Mul(Mul(res.vx[k], Cos(theta[k])), Cos(phi[k])),
                            Mul(Mul(res.vy[k], Cos(theta[k])), Sin(phi[k]))),
                        Mul(res.vz[k], Sin(theta[k]))),
                    L)]
        sin_theta == [k \in 1..n |-> Sin(theta[k])]
        phi_dot ==
            [k \in 1..n |->
                IF Gt(Abs(sin_theta[k]), MaskEps)
                THEN Div(Add(Mul(Neg(res.vx[k]), Sin(phi[k])),
                             Mul(res.vy[k], Cos(phi[k]))),
                         Mul(L, sin_theta[k]))
                ELSE 0]
    IN  [t |-> res.t, theta |-> theta, phi |-> phi, theta_dot |-> theta_dot,
         phi_dot |-> phi_dot, energy |-> res.energy]

\* the return of run, on either path
SphReturn(fr) ==
    [fr EXCEPT
        !.pc = "done",
        !.ret = IF fr.path = "cartesian"
                THEN ToSpherical(fr.args.L, CartResult(fr))
                ELSE [t |-> fr.t, theta |-> fr.arr.theta, phi |-> fr.arr.phi,
                      theta_dot |-> fr.arr.theta_dot, phi_dot |-> fr.arr.phi_dot,
                      energy |-> fr.arr.energy]]

\* ------------------------------------------------------------------------
\* Callers and the arguments they pass
\* ------------------------------------------------------------------------
Callers == {1, 2}

\* step size and duration <<h, t_final>>: a duration of 0, one that is a
\* multiple of the step, one that is not, and one whose sum with the step
\* rounds up
Timings ==
    {<<Num(1, 4), 0>>, <<Num(1, 4), Num(1, 4)>>, <<Num(1, 4), Num(3, 8)>>,
     <<Num(25, 128), Num(25, 64)>>}

\* no drag, moderate drag, and a drag that makes the step unstable
Drags == {0, Half, Num(16, 1)}

PlanarArgsOf(Ls, phis, tms, drags) ==
    {[L |-> L, phi0 |-> ph, g |-> Num(981, 100), h |-> tm[1], t_final |-> tm[2],
      air_resistance |-> b] :
        L \in Ls, ph \in phis, tm \in tms, b \in drags}

PlanarArgs == PlanarArgsOf({One, Two}, {Num(1, 10), One}, Timings, Drags)

\* the values of the parameters of pendulum.run that a call leaves out
PlanarDefaults ==
    [L |-> Num(1, 1), phi0 |-> Num(1, 10), g |-> Num(981, 100), h |-> Num(1, 100),
     t_final |-> Num(30, 1), air_resistance |-> 0]

Impulses == {<<0, 0, 0>>, <<0, Num(1, 4), 0>>}

\* rod length and initial polar angle <<L, theta0>>: both poles, angles away
\* from them, and an angle just outside the band of the singularity guard
Geometries ==
    {<<One, 0>>, <<One, PiV>>, <<One, Half>>, <<Two, Half>>, <<One, Num(1, 8)>>}

SphArgsOf(geos, phis, thetaDots, phiDots, tms, drags, imps) ==
    {[L |-> ge[1], theta0 |-> ge[2], phi0 |-> ph, theta_dot0 |-> td,
      phi_dot0 |-> pd, g |-> Num(981, 100), h |-> tm[1], t_final |-> tm[2],
      air_resistance |-> b, force_x |-> F[1], force_y |-> F[2], force_z |-> F[3]] :
        ge \in geos, ph \in phis, td \in thetaDots, pd \in phiDots, tm \in tms,
        b \in drags, F \in imps}

SphArgs ==
    SphArgsOf(Geometries, {0, One}, {0, Half}, {0, One}, Timings, Drags, Impulses)

\* the smaller sets for interleaved callers
PairTimings == {<<Num(1, 4), Num(3, 8)>>}
PairPlanarArgs == PlanarArgsOf({One}, {One}, PairTimings, {0, Half})
PairSphArgs ==
    SphArgsOf({<<One, 0>>, <<One, Half>>}, {One}, {Half}, {One}, PairTimings, {Half},
              {<<0, Num(1, 4), 0>>})

\* arguments outside the physical range: a step of 0 or below, a negative
\* duration, a rod of length 0 or below
InvalidTimings ==
    {<<0, Num(1, 4)>>, <<Neg(Num(1, 4)), Num(3, 8)>>, <<Neg(Num(1, 4)), Neg(Half)>>,
     <<Num(1, 4), Neg(Num(1, 8))>>, <<Num(1, 4), Neg(Half)>>}

InvalidPlanarArgs ==
    PlanarArgsOf({One}, {One}, InvalidTimings, {0, Half})
        \cup PlanarArgsOf({0, Neg(One)}, {One}, {<<Num(1, 4), 0>>, <<Num(1, 4), Num(3, 8)>>},
                          {0, Half})

InvalidSphArgs ==
    SphArgsOf({<<One, 0>>, <<One, Half>>}, {One}, {Half}, {One}, InvalidTimings, {Half},
              Impulses)
        \cup SphArgsOf({<<0, 0>>, <<0, Half>>, <<Neg(One), 0>>, <<Neg(One), Half>>},
                       {One}, {Half}, {One}, {<<Num(1, 4), 0>>, <<Num(1, 4), Num(3, 8)>>},
                       {Half}, Impulses)

\* ------------------------------------------------------------------------
\* ui_utils.py
\* ------------------------------------------------------------------------
\* A widget is a node of a tree: its children in the order winfo_children
\* returns them, its state option, and whether configure(state=...) raises
\* TclError on it (a widget without that option).
MaxWidgets == 4
Widget == 1..MaxWidgets

RECURSIVE SetStateRecursiveStopAtError(_, _, _)
RECURSIVE ForChildrenStopAtError(_, _, _, _)
\* (mutant) the loop over the children is inside the try block, after the
\* call of configure
SetStateRecursiveStopAtError(ws, widget, state) ==
    IF ws[widget].raises THEN ws
    ELSE ForChildrenStopAtError([ws EXCEPT ![widget].state = state],
                                ws[widget].children, 1, state)

ForChildrenStopAtError(ws, kids, j, state) ==
    IF j > Len(kids) THEN ws
    ELSE ForChildrenStopAtError(SetStateRecursiveStopAtError(ws, kids[j], state),
                                kids, j + 1, state)

RECURSIVE SetStateRecursive(_, _, _)
RECURSIVE ForChildren(_, _, _, _)
\* set_state_recursive(widget, state) on the widgets ws: configure, with
\* TclError swallowed, then the same for each child
SetStateRecursive(ws, widget, state) ==
    ForChildren(IF ws[widget].raises THEN ws ELSE [ws EXCEPT ![widget].state = state],
                ws[widget].children, 1, state)

\* for child in widget.winfo_children(): set_state_recursive(child, state)
ForChildren(ws, kids, j, state) ==
    IF j > Len(kids) THEN ws
    ELSE ForChildren(SetStateRecursive(ws, kids[j], state), kids, j + 1, state)

\* the user interface before it is built
NoGui == [built |-> FALSE]

\* no tree, and no call made on it
NoCall == [widget |-> 0, state |-> "none", before |-> <<>>]
NoWidgets == [w |-> <<>>, last |-> NoCall]

\* the members of a set of widgets in ascending order
RECURSIVE InOrder(_)
InOrder(S) ==
    IF S = {} THEN <<>>
    ELSE LET m == CHOOSE x \in S : \A y \in S : x <= y
         IN  <<m>> \o InOrder(S \ {m})

\* the shapes of the trees with root 1: every widget but the root has a
\* parent created before it
TreeShapes ==
    {[n \in Widget |-> InOrder({m \in Widget \ {1} : parent[m] = n})] :
        parent \in {q \in [Widget \ {1} -> Widget] : \A m \in Widget \ {1} : q[m] < m}}

\* the values of the state option: unset, tk.DISABLED, tk.NORMAL
WidgetStates == {"disabled", "normal"}

BuiltTrees ==
    {[n \in Widget |-> [children |-> sh[n], state |-> "unset", raises |-> n \in R]] :
        sh \in TreeShapes, R \in SUBSET Widget}

\* ------------------------------------------------------------------------
\* Initial state and the callers' actions
\* ------------------------------------------------------------------------
NoRef == [fn |-> "none", args |-> <<>>, ret |-> <<>>]

Init ==
    /\ frame = [c \in Callers |-> NoFrame]
    /\ ref = NoRef
    /\ registry = FALSE
    /\ widgets = NoWidgets
    /\ gui = NoGui

Enter(c, fr) ==
    /\ frame[c].pc = "idle"
    /\ frame' = [frame EXCEPT ![c] = fr]
    /\ UNCHANGED <<ref, registry, widgets, gui>>

CallPlanar(c, A) == \E a \in A : Enter(c, PlanarEnter(a))
\* a call of run: the warning of the guard is issued before anything else
EnterWarned(c, fr, w) ==
    /\ frame[c].pc = "idle"
    /\ frame' = [frame EXCEPT ![c] = [fr EXCEPT !.shown = w.shown]]
    /\ registry' = w.registry
    /\ UNCHANGED <<ref, widgets, gui>>

CallSpherical(c, A) ==
    \E a \in A : EnterWarned(c, SphEnter(a), FallbackWarning(a, registry))
CallCartesian(c, A) == \E a \in A : Enter(c, CartEnter(a))

\* pendulum.run(plot=False): every parameter of the model takes its default
CallPlanarDefault(c) == Enter(c, PlanarEnter(PlanarDefaults))
CallRk4Test2(c) == Enter(c, Rk4Test2Enter)

\* (mutant) range(len(t_values) - 2)
InLoopShort(fr) == fr.pc = "loop" /\ fr.i < Len(fr.t) - 2

\* range(len(t_values) - 1) has another index
InLoop(fr) == fr.pc = "loop" /\ fr.i < Len(fr.t) - 1
LoopDone(fr) == fr.pc = "loop" /\ ~(fr.i < Len(fr.t) - 1)

Advance(c, path, fr) ==
    /\ InLoop(frame[c])
    /\ frame[c].path = path
    /\ frame' = [frame EXCEPT ![c] = fr]
    /\ UNCHANGED <<ref, registry, widgets, gui>>

StepPlanar(c) == Advance(c, "planar", PlanarStep(frame[c]))
StepSpherical(c) == Advance(c, "spherical", SphStep(frame[c]))
StepCartesian(c) == Advance(c, "cartesian", CartStep(frame[c]))
StepRk4Test2(c) == Advance(c, "rk4test2", Rk4Test2Step(frame[c]))

Leave(c, fn, fr) ==
    /\ LoopDone(frame[c])
    /\ frame[c].fn = fn
    /\ frame' = [frame EXCEPT ![c] = fr]
    /\ UNCHANGED <<ref, registry, widgets, gui>>

ReturnPlanar(c) == Leave(c, "pendulum.run", PlanarReturn(frame[c]))
ReturnSpherical(c) == Leave(c, "pendulum3d.run", SphReturn(frame[c]))
ReturnCartesian(c) == Leave(c, "run_cartesian", CartReturn(frame[c]))
ReturnRk4Test2(c) == Leave(c, "rk4_test2.run", Rk4Test2Return(frame[c]))

\* the caller drops the returned arrays and is free to call again
Drop(c) ==
    /\ frame[c].pc = "done"
    /\ frame' = [frame EXCEPT ![c] = NoFrame]
    /\ UNCHANGED <<ref, registry, widgets, gui>>

\* the exception of a call reaches the caller, who is free to call again
Catch(c) ==
    /\ frame[c].pc = "raised"
    /\ frame' = [frame EXCEPT ![c] = NoFrame]
    /\ UNCHANGED <<ref, registry, widgets, gui>>

\* the caller keeps the returned arrays of the first completed call
Keep(c) ==
    /\ frame[c].pc = "done"
    /\ ref = NoRef
    /\ ref' = [fn |-> frame[c].fn, args |-> frame[c].args, ret |-> frame[c].ret]
    /\ frame' = [frame EXCEPT ![c] = NoFrame]
    /\ UNCHANGED <<registry, widgets, gui>>

Next ==
    \/ CallPlanar(1, PlanarArgs)
    \/ CallSpherical(1, SphArgs)
    \/ CallCartesian(1, SphArgs)
    \/ CallRk4Test2(1)
    \/ StepPlanar(1)
    \/ StepSpherical(1)
    \/ StepCartesian(1)
    \/ StepRk4Test2(1)
    \/ ReturnPlanar(1)
    \/ ReturnSpherical(1)
    \/ ReturnCartesian(1)
    \/ ReturnRk4Test2(1)
    \/ Drop(1)

Spec == Init /\ [][Next]_vars

\* two callers whose calls interleave step by step
NextPair ==
    \E c \in Callers :
        \/ CallPlanar(c, PairPlanarArgs)
        \/ CallSpherical(c, PairSphArgs)
        \/ CallCartesian(c, PairSphArgs)
        \/ StepPlanar(c)
        \/ StepSpherical(c)
        \/ StepCartesian(c)
        \/ ReturnPlanar(c)
        \/ ReturnSpherical(c)
        \/ ReturnCartesian(c)
        \/ Drop(c)
        \/ Keep(c)

SpecPair == Init /\ [][NextPair]_vars

\* a caller who passes arguments outside the physical range
NextInvalid ==
    \/ CallPlanar(1, InvalidPlanarArgs)
    \/ CallSpherical(1, InvalidSphArgs)
    \/ CallCartesian(1, InvalidSphArgs)
    \/ StepPlanar(1)
    \/ StepSpherical(1)
    \/ StepCartesian(1)
    \/ ReturnPlanar(1)
    \/ ReturnSpherical(1)
    \/ ReturnCartesian(1)
    \/ Drop(1)
    \/ Catch(1)

SpecInvalid == Init /\ [][NextInvalid]_vars

\* a caller who passes any arguments, in the physical range or outside it
AnyPlanarArgs == PlanarArgsOf({One}, {One}, Timings, {0, Half}) \cup InvalidPlanarArgs
AnySphArgs ==
    SphArgsOf({<<One, 0>>, <<One, Half>>}, {One}, {Half}, {One}, Timings, {Half}, Impulses)
        \cup InvalidSphArgs

NextAny ==
    \/ CallPlanar(1, AnyPlanarArgs)
    \/ CallSpherical(1, AnySphArgs)
    \/ CallCartesian(1, AnySphArgs)
    \/ StepPlanar(1)
    \/ StepSpherical(1)
    \/ StepCartesian(1)
    \/ ReturnPlanar(1)
    \/ ReturnSpherical(1)
    \/ ReturnCartesian(1)
    \/ Drop(1)
    \/ Catch(1)

SpecAny == Init /\ [][NextAny]_vars

\* a caller of run who starts the pendulum at the lower pole with a push
\* that carries it well away from the pole
SwingArgs ==
    SphArgsOf({<<One, 0>>}, {0, One}, {One, Two}, {0}, Timings, {0, Half}, Impulses)

NextSwing ==
    \/ CallSpherical(1, SwingArgs)
    \/ StepCartesian(1)
    \/ ReturnSpherical(1)
    \/ Drop(1)

SpecSwing == Init /\ [][NextSwing]_vars

\* a caller of run_cartesian who converts the series it returns to angles
\* with the formulas of the fallback branch of run
Convert(c) ==
    /\ frame[c].pc = "done"
    /\ frame[c].fn = "run_cartesian"
    /\ frame' = [frame EXCEPT ![c] = [frame[c] EXCEPT
                    !.fn = "to_spherical",
                    !.ret = ToSpherical(frame[c].args.L, frame[c].ret)]]
    /\ UNCHANGED <<ref, registry, widgets, gui>>

\* polar angles between the poles, from one unit above the lower pole to
\* just below the upper one; azimuths in (-pi, pi], the nearest value to pi
\* among them when it is not above pi
RoundTripThetas ==
    {1, 8, Num(1, 8), Half, Num(3, 4), One, Num(5, 4), Num(3, 2), Num(7, 4), Two,
     Num(5, 2), Num(3, 1)}
RoundTripPhis ==
    {0, One, Neg(One), Num(3, 1), Neg(Num(3, 1))} \cup {p \in {PiV} : Sin(p) >= 0}
RoundTripArgs ==
    SphArgsOf({<<L, th>> : L \in {One, Two}, th \in RoundTripThetas}, RoundTripPhis,
              {0, Half, Neg(One)}, {0, One},
              {<<Num(1, 4), 0>>, <<Num(1, 4), Num(1, 4)>>}, {0}, {<<0, 0, 0>>})

NextRoundTrip ==
    \/ CallCartesian(1, RoundTripArgs)
    \/ StepCartesian(1)
    \/ ReturnCartesian(1)
    \/ Convert(1)
    \/ Drop(1)

SpecRoundTrip == Init /\ [][NextRoundTrip]_vars

\* a caller of run_cartesian's derivative: one evaluation at a state
EvalDerivative(c, a, st) ==
    /\ frame[c].pc = "idle"
    /\ frame' = [frame EXCEPT ![c] = [NoFrame EXCEPT
                    !.pc = "done", !.fn = "run_cartesian.derivative", !.path = "cartesian",
                    !.args = a, !.state = st, !.nCart = 1,
                    !.ret = Call([kind |-> "cartesian", a |-> a], 0, st)]]
    /\ UNCHANGED <<ref, registry, widgets, gui>>

\* the coordinates states are drawn from, and the states that satisfy both
\* constraints as the program would test them: np.dot(r, r) == L**2 and
\* np.dot(r, v) == 0
Coordinates == {0, 64, -64, 128, -128, 192, -192, 256, -256, 384, -384, 512, -512}
Speeds == {0, 64, -64, 128, -128, 256, -256, 384, -384}
VectorsOver(S) == {<<x, y, z>> : x \in S, y \in S, z \in S}
OnSphere(L) == {r \in VectorsOver(Coordinates) : Dot3(r, r) = Sq(L)}
Tangent(r) == {v \in VectorsOver(Speeds) : Dot3(r, v) = 0}
ConstraintStates(L) ==
    UNION {{<<r[1], r[2], r[3], v[1], v[2], v[3]>> : v \in Tangent(r)} : r \in OnSphere(L)}

DerivativeArgs ==
    SphArgsOf({<<L, 0>> : L \in {Num(3, 8), One, Num(5, 4)}}, {0}, {0}, {0},
              {<<Num(1, 4), 0>>}, {0, Half, Two}, {<<0, 0, 0>>})

NextDerivative ==
    \/ \E a \in DerivativeArgs : \E st \in ConstraintStates(a.L) : EvalDerivative(1, a, st)
    \/ Drop(1)

SpecDerivative == Init /\ [][NextDerivative]_vars

\* a caller who leaves every parameter of the planar model out
NextDefault ==
    \/ CallPlanarDefault(1)
    \/ StepPlanar(1)
    \/ ReturnPlanar(1)
    \/ Drop(1)

SpecDefault == Init /\ [][NextDefault]_vars

\* a tree of widgets has been built, and set_state_recursive is called on
\* its widgets
InitWidgets ==
    /\ frame = [c \in Callers |-> NoFrame]
    /\ ref = NoRef
    /\ registry = FALSE
    /\ widgets \in {[w |-> ws, last |-> NoCall] : ws \in BuiltTrees}
    /\ gui = NoGui

CallSetState(widget, state) ==
    /\ widgets' = [w |-> SetStateRecursive(widgets.w, widget, state),
                   last |-> [widget |-> widget, state |-> state, before |-> widgets.w]]
    /\ UNCHANGED <<frame, ref, registry, gui>>

NextWidgets == \E widget \in Widget, state \in WidgetStates : CallSetState(widget, state)

SpecWidgets == InitWidgets /\ [][NextWidgets]_vars

AllFinite(st) == \A j \in DOMAIN st : Finite(st[j])

\* a whole call of run as a function of its arguments
RECURSIVE RunLoop(_)
RunLoop(fr) ==
    IF InLoop(fr)
    THEN RunLoop(IF fr.path = "cartesian" THEN CartStep(fr) ELSE SphStep(fr))
    ELSE fr

run(a) == SphReturn(RunLoop(SphEnter(a))).ret

\* ------------------------------------------------------------------------
\* ui.py: the impulse button of the 3D pendulum
\* ------------------------------------------------------------------------
\* np.radians
Radians(d) == IF Finite(d) THEN Fl(RoundRat(d * PiF, 180 * FINE)) ELSE NaN

\* a % m of floats for a finite m > 0
FloatMod(a, m) == IF Finite(a) THEN Fl(RoundRat(a % m, 1)) ELSE NaN

\* ((psi + np.pi) % (2 * np.pi)) - np.pi
WrapAzimuth(psi) == Sub(FloatMod(Add(psi, PiV), Mul(Two, PiV)), PiV)

\* the builtins max(a, b) and min(a, b) of two floats
PyMax(a, b) == IF Gt(b, a) THEN b ELSE a
PyMin(a, b) == IF Lt(b, a) THEN b ELSE a

MinInt(a, b) == IF b < a THEN b ELSE a

\* the keys of pendulum_data that hold one value per sample
SeriesKeys ==
    {"Angle", "Psi", "Angular velocity", "phi_dot", "Angular acceleration", "Energy",
     "Kinetic", "Potential", "x", "y", "z", "vx", "vy", "vz"}

\* the value stored under a key for the sample with the angles th, ps, the
\* angular velocities thd, phd and the energy e
SeriesValue(key, L, g, drag, th, ps, thd, phd, e) ==
    CASE key = "Angle" -> th
      [] key = "Psi" -> WrapAzimuth(ps)
      [] key = "Angular velocity" -> thd
      [] key = "phi_dot" -> phd
      [] key = "Energy" -> e
      [] key = "x" -> Mul(Mul(L, Sin(th)), Cos(ps))
      [] key = "y" -> Mul(Mul(L, Sin(th)), Sin(ps))
      [] key = "z" -> Mul(Neg(L), Cos(th))
      [] key = "vx" -> Mul(L, Sub(Mul(Mul(thd, Cos(th)), Cos(ps)),
                                  Mul(Mul(phd, Sin(th)), Sin(ps))))
      [] key = "vy" -> Mul(L, Add(Mul(Mul(thd, Cos(th)), Sin(ps)),
                                  Mul(Mul(phd, Sin(th)), Cos(ps))))
      [] key = "vz" -> Mul(Mul(Neg(L), thd), Sin(th))
      [] key = "Kinetic" ->
            Mul(Mul(Half, Sq(L)), Add(Sq(thd), Mul(Sq(Sin(th)), Sq(phd))))
      [] key = "Potential" -> Mul(Mul(g, L), Sub(One, Cos(th)))
      [] key = "Angular acceleration" ->
            Sub(Sub(Mul(Mul(Sin(th), Cos(th)), Sq(phd)), Mul(Div(g, L), Sin(th))),
                Mul(Mul(drag, thd), Abs(thd)))

\* sample k of the series a trajectory returned by run gives under a key
SeriesSample(key, L, g, drag, out, k) ==
    SeriesValue(key, L, g, drag, out.theta[k], out.phi[k], out.theta_dot[k],
                out.phi_dot[k], out.energy[k])

\* pendulum_data before a simulation has been set up, and the frame key
\* before the animation has drawn a frame
NoData == [t |-> <<>>, frame |-> -1, s |-> <<>>]
NoFrameKey == NoData.frame

\* the arguments setup_pendulum3d passes to run
SetupArgs(u) ==
    [L |-> u.par.L, theta0 |-> Radians(u.par.phi), phi0 |-> Radians(u.par.psi),
     theta_dot0 |-> 0, phi_dot0 |-> Radians(u.par.psi_dot), g |-> u.par.g,
     h |-> u.par.h, t_final |-> u.par.t_end, air_resistance |-> u.par.drag,
     force_x |-> u.force[1], force_y |-> u.force[2], force_z |-> u.force[3]]

\* the dictionary setup_pendulum3d builds from the trajectory out
PendulumData(u, out) ==
    [t |-> out.t, frame |-> NoFrameKey,
     s |-> [key \in SeriesKeys |->
               [k \in 1..Len(out.t) |->
                   SeriesSample(key, u.par.L, u.par.g, u.par.drag, out, k)]]]

\* setup_pendulum3d once run has returned out; start_sim follows
setup_pendulum3d(u, out) ==
    [u EXCEPT !.data = PendulumData(u, out), !.running = TRUE, !.busy = "idle"]

\* no press of the button since the last other event
NoPress == [outcome |-> "none", before |-> <<>>, out |-> <<>>]

\* what a press of the button found before it did anything
Snapshot(u) ==
    [data |-> u.data, force |-> u.force, invalid |-> u.invalid, option |-> u.option,
     running |-> u.running]

\* a return of apply_impulse after update_status, nothing else done
Rejected(u, why) ==
    [u EXCEPT !.busy = "idle",
              !.last = [outcome |-> why, before |-> Snapshot(u), out |-> <<>>]]

\* the handler of the outer try block: the three impulse variables are set
\* to 0.0
Failed(u) ==
    [u EXCEPT !.force = <<0, 0, 0>>, !.invalid = @ \ {"force"},
              !.last = [outcome |-> "error", before |-> Snapshot(u), out |-> <<>>]]

\* the limits apply_impulse and validate_impulse_values test against
MaxImpulse == Num(50, 1)
MinImpulse == Num(1, 1000)
MaxValidImpulse == Num(20, 1)
MinValidImpulse == Num(1, 100)
MaxVelocity == Num(100, 1)

\* safe_resize_array: truncated, or padded with the last value
SafeResize(arr, n) == [j \in 1..n |-> IF j <= Len(arr) THEN arr[j] ELSE arr[Len(arr)]]

\* safe_length: the shortest of the samples from the frame on, the samples
\* run returned and the remaining frames
SafeLength(u, remaining, out) ==
    MinInt(MinInt(Len(u.data.t) - u.data.frame, Len(out.t)), remaining)

\* update_end: one past the last index written
UpdateEnd(u, safe) == MinInt(u.data.frame + safe, Len(u.data.s["Angle"]))

\* the arrays run returned, each resized to the safe length
Resized(out, safe) ==
    [t |-> SafeResize(out.t, safe), theta |-> SafeResize(out.theta, safe),
     phi |-> SafeResize(out.phi, safe), theta_dot |-> SafeResize(out.theta_dot, safe),
     phi_dot |-> SafeResize(out.phi_dot, safe), energy |-> SafeResize(out.energy, safe)]

\* (mutant) the new samples are written from the start of every series
WriteSamplesFromStart(u, L, g, drag, f, update_end, new) ==
    [u EXCEPT
        !.data.s = [key \in SeriesKeys |->
                       [k \in 1..Len(u.data.s[key]) |->
                           IF k <= update_end - f
                           THEN SeriesSample(key, L, g, drag, new, k)
                           ELSE u.data.s[key][k]]],
        !.force = <<0, 0, 0>>,
        !.busy = "idle",
        !.applied = @ + 1,
        !.last = [outcome |-> "applied", before |-> Snapshot(u), out |-> <<>>]]

\* the slice assignments: the indices f .. update_end - 1 of every series
\* take the first update_end - f new samples; then the impulse variables are
\* set to 0.0
WriteSamples(u, L, g, drag, f, update_end, new) ==
    [u EXCEPT
        !.data.s = [key \in SeriesKeys |->
                       [k \in 1..Len(u.data.s[key]) |->
                           IF k > f /\ k <= update_end
                           THEN SeriesSample(key, L, g, drag, new, k - f)
                           ELSE u.data.s[key][k]]],
        !.force = <<0, 0, 0>>,
        !.busy = "idle",
        !.applied = @ + 1,
        !.last = [outcome |-> "applied", before |-> Snapshot(u), out |-> <<>>]]

StoreChecked(u, L, g, drag, safe, out) ==
    IF safe <= 0 \/ UpdateEnd(u, safe) - u.data.frame <= 0
    THEN Rejected(u, "no range")
    ELSE WriteSamples(u, L, g, drag, u.data.frame, UpdateEnd(u, safe), Resized(out, safe))

\* the five arrays of the new trajectory that apply_impulse tests
ResultsFinite(out) ==
    \A k \in 1..Len(out.t) :
        AllFinite(<<out.theta[k], out.phi[k], out.theta_dot[k], out.phi_dot[k],
                    out.energy[k]>>)

\* apply_impulse once run has returned out: the results are validated, cut
\* to the safe length and written over the samples from the frame on
StoreImpulse(u, L, g, drag, remaining, out) ==
    IF Len(out.t) = 0 THEN Rejected(u, "no results")
    ELSE IF ~ResultsFinite(out) THEN Rejected(u, "results")
    ELSE StoreChecked(u, L, g, drag, SafeLength(u, remaining, out), out)

\* the clamped parameters and the arguments apply_impulse passes to run for
\* the state st of the current frame
ClampedL(u) == PyMax(Num(1, 10), u.par.L)
ClampedG(u) == PyMax(Num(1, 10), u.par.g)
ClampedH(u) == PyMax(Num(1, 1000), PyMin(Num(1, 10), u.par.h))
ClampedDrag(u) == PyMax(0, PyMin(One, u.par.drag))
RemainingFrames(u) == Len(u.data.t) - u.data.frame - 5

ImpulseArgs(u, st) ==
    [L |-> ClampedL(u), theta0 |-> st[1], phi0 |-> st[2], theta_dot0 |-> st[3],
     phi_dot0 |-> st[4], g |-> ClampedG(u), h |-> ClampedH(u),
     t_final |-> PyMax(Num(1, 10), Mul(Num(RemainingFrames(u), 1), ClampedH(u))),
     air_resistance |-> ClampedDrag(u),
     force_x |-> u.force[1], force_y |-> u.force[2], force_z |-> u.force[3]]

\* the state recorded for the current frame
StateAtFrame(d) ==
    <<d.s["Angle"][d.frame + 1], d.s["Psi"][d.frame + 1],
      d.s["Angular velocity"][d.frame + 1], d.s["phi_dot"][d.frame + 1]>>

\* the state passes the checks made before the simulation is run again
StateAccepted(st) ==
    /\ AllFinite(st)
    /\ ~(Gt(Abs(st[1]), PiV) \/ Gt(Abs(st[2]), Mul(Two, PiV)))
    /\ ~(Gt(Abs(st[3]), MaxVelocity) \/ Gt(Abs(st[4]), MaxVelocity))

\* apply_impulse reaches the call of run
Resimulate(u) ==
    [u EXCEPT !.busy = "impulse",
              !.last = [outcome |-> "run", before |-> Snapshot(u), out |-> <<>>]]

\* (mutant) the impulse is applied whether the animation runs or not
apply_impulse_paused(u) ==
    LET d == u.data
        F == u.force
    IN  IF u.option # "3D Pendulum" THEN Rejected(u, "option")
        ELSE IF d = NoData THEN Rejected(u, "no data")
        ELSE IF d.frame = NoFrameKey THEN Rejected(u, "no frame")
        ELSE IF d.frame <= 0 THEN Rejected(u, "start")
        ELSE IF d.frame >= Len(d.t) - 10 THEN Rejected(u, "end")
        ELSE IF "force" \in u.invalid THEN Failed(u)
        ELSE IF \E j \in 1..3 : Gt(Abs(F[j]), MaxImpulse) THEN Rejected(u, "large")
        ELSE IF \A j \in 1..3 : Lt(Abs(F[j]), MinImpulse) THEN Rejected(u, "small")
        ELSE IF "L" \in u.invalid THEN Failed(u)
        ELSE IF RemainingFrames(u) <= 0 THEN Rejected(u, "remaining")
        ELSE IF ~StateAccepted(StateAtFrame(d)) THEN Rejected(u, "state")
        ELSE Resimulate(u)

\* apply_impulse
apply_impulse(u) ==
    LET d == u.data
        F == u.force
    IN  IF u.option # "3D Pendulum" THEN Rejected(u, "option")
        ELSE IF d = NoData THEN Rejected(u, "no data")
        ELSE IF ~u.running THEN Rejected(u, "paused")
        ELSE IF d.frame = NoFrameKey THEN Rejected(u, "no frame")
        ELSE IF d.frame <= 0 THEN Rejected(u, "start")
        ELSE IF d.frame >= Len(d.t) - 10 THEN Rejected(u, "end")
        ELSE IF "force" \in u.invalid THEN Failed(u)
        ELSE IF \E j \in 1..3 : Gt(Abs(F[j]), MaxImpulse) THEN Rejected(u, "large")
        ELSE IF \A j \in 1..3 : Lt(Abs(F[j]), MinImpulse) THEN Rejected(u, "small")
        ELSE IF "L" \in u.invalid THEN Failed(u)
        ELSE IF RemainingFrames(u) <= 0 THEN Rejected(u, "remaining")
        ELSE IF ~StateAccepted(StateAtFrame(d)) THEN Rejected(u, "state")
        ELSE Resimulate(u)

\* safe_apply_impulse, the command of the button: validate_impulse_values,
\* validate_simulation_state, then apply_impulse
safe_apply_impulse(u) ==
    LET F == u.force
    IN  IF "force" \in u.invalid THEN Rejected(u, "unreadable")
        ELSE IF \E j \in 1..3 : Gt(Abs(F[j]), MaxValidImpulse) THEN Rejected(u, "too large")
        ELSE IF \A j \in 1..3 : Lt(Abs(F[j]), MinValidImpulse) THEN Rejected(u, "too small")
        ELSE IF \E j \in 1..3 : ~Finite(F[j]) THEN Rejected(u, "not finite")
        ELSE IF u.data = NoData THEN Rejected(u, "No simulation data")
        ELSE apply_impulse(u)

\* the values the user has given the parameters: a step of 1/16 s, an end
\* time of 13 steps and g = 1, angles in degrees
GuiParams ==
    {[L |-> One, g |-> One, h |-> Num(1, 16), drag |-> b,
      t_end |-> Num(13, 16), phi |-> ph, psi |-> Num(45, 1), psi_dot |-> Num(20, 1)] :
        b \in {0}, ph \in {Two, Num(30, 1)}}

\* the values the user types into the impulse fields
GuiImpulses ==
    {<<0, 0, 0>>, <<0, Num(1, 4), 0>>, <<Num(30, 1), 0, 0>>}

\* the number of impulses the model lets the user apply to one simulation
MaxImpulses == 1

\* the entries whose text the model lets the user leave unreadable
GuiEntries == {"force", "L"}

\* the window once main has built it: no simulation, nothing running
BuiltGuis ==
    {[option |-> "Pendulum", running |-> FALSE, data |-> NoData, force |-> <<0, 0, 0>>,
      invalid |-> {}, par |-> par, last |-> NoPress, applied |-> 0, busy |-> "idle"] :
        par \in GuiParams}

InitGui ==
    /\ frame = [c \in Callers |-> NoFrame]
    /\ ref = NoRef
    /\ registry = FALSE
    /\ widgets = NoWidgets
    /\ gui \in BuiltGuis

\* an event of the window that calls nothing outside ui.py; the handlers of
\* the one Tk thread run one after the other
GuiStep(u) ==
    /\ gui.busy = "idle"
    /\ gui' = u
    /\ UNCHANGED <<frame, ref, registry, widgets>>

\* a handler of the window calls pendulum3d.run with the arguments a
GuiCall(u, a) ==
    /\ gui.busy = "idle"
    /\ frame[1].pc = "idle"
    /\ gui' = u
    /\ frame' = [frame EXCEPT
                    ![1] = [SphEnter(a) EXCEPT !.shown = FallbackWarning(a, registry).shown]]
    /\ registry' = FallbackWarning(a, registry).registry
    /\ UNCHANGED <<ref, widgets>>

\* run has returned to the handler, which goes on to its end
GuiReturn(kind, u) ==
    /\ gui.busy = kind
    /\ frame[1].pc = "done"
    /\ gui' = u
    /\ frame' = [frame EXCEPT ![1] = NoFrame]
    /\ UNCHANGED <<ref, registry, widgets>>

\* the user picks a simulation in the dropdown
SelectOption(o) ==
    /\ gui.option # o
    /\ GuiStep([gui EXCEPT !.option = o, !.last = NoPress])

\* the Run button with the 3D pendulum selected: the trajectory is set up
\* and the animation started; the model follows the first simulation of the
\* window
RunSimulation ==
    /\ gui.option = "3D Pendulum"
    /\ gui.data = NoData
    /\ gui.invalid = {}
    /\ GuiCall([gui EXCEPT !.busy = "setup", !.last = NoPress], SetupArgs(gui))

FinishSetup == GuiReturn("setup", setup_pendulum3d(gui, frame[1].ret))

PauseSim ==
    /\ gui.running
    /\ GuiStep([gui EXCEPT !.running = FALSE, !.last = NoPress])

StartSim ==
    /\ ~gui.running
    /\ gui.data # NoData
    /\ GuiStep([gui EXCEPT !.running = TRUE, !.last = NoPress])

\* the animation draws the next frame and records its index
DrawFrame ==
    /\ gui.running
    /\ gui.data # NoData
    /\ gui.data.frame < Len(gui.data.t) - 1
    /\ GuiStep([gui EXCEPT !.data.frame = @ + 1, !.last = NoPress])

\* the user enters an impulse
SetImpulse(F) ==
    /\ gui.force # F \/ "force" \in gui.invalid
    /\ GuiStep([gui EXCEPT !.force = F, !.invalid = @ \ {"force"}, !.last = NoPress])

\* the user leaves text that is not a number in an entry, or restores it
EditEntry(e) ==
    GuiStep([gui EXCEPT
                !.invalid = IF e \in @ THEN @ \ {e} ELSE @ \cup {e},
                !.last = NoPress])

\* the user presses the impulse button and the press is turned down, or ends
\* in the handler of the outer try block; the model follows the window for
\* MaxImpulses applied impulses
PressApplyImpulse ==
    /\ gui.applied < MaxImpulses
    /\ safe_apply_impulse(gui).busy = "idle"
    /\ GuiStep(safe_apply_impulse(gui))

\* the press reaches the call of run
PressAndSimulate ==
    /\ gui.applied < MaxImpulses
    /\ safe_apply_impulse(gui).busy = "impulse"
    /\ GuiCall(safe_apply_impulse(gui), ImpulseArgs(gui, StateAtFrame(gui.data)))

\* last.out keeps what run returned to the press
FinishImpulse ==
    GuiReturn("impulse",
              [StoreImpulse(gui, ClampedL(gui), ClampedG(gui), ClampedDrag(gui),
                            RemainingFrames(gui), frame[1].ret)
                  EXCEPT !.last.out = frame[1].ret])

NextGui ==
    \/ \E o \in {"Pendulum", "3D Pendulum"} : SelectOption(o)
    \/ RunSimulation
    \/ PauseSim
    \/ StartSim
    \/ DrawFrame
    \/ \E F \in GuiImpulses : SetImpulse(F)
    \/ \E e \in GuiEntries : EditEntry(e)
    \/ PressApplyImpulse
    \/ PressAndSimulate
    \/ FinishSetup
    \/ FinishImpulse
    \/ StepSpherical(1)
    \/ StepCartesian(1)
    \/ ReturnSpherical(1)

SpecGui == InitGui /\ [][NextGui]_vars

\* ========================================================================
\* Properties
\* ========================================================================
\* a value in the normal range: finite, and large enough to carry Prec bits
Normal(a) == Finite(a) /\ AbsI(a) >= 2 ^ Prec

\* the frames of run_cartesian's loop, called directly or through run, with
\* at least one step taken
CartStepped(fr) == fr.path = "cartesian" /\ fr.pc = "loop" /\ fr.i >= 1

\* x^2 + y^2 + z^2 - L^2 and x*vx + y*vy + z*vz of a finite state whose
\* position lies within 4L, in exact arithmetic (units squared)
RadialDefect(st, L) == st[1] * st[1] + st[2] * st[2] + st[3] * st[3] - L * L
RadialVelocity(st) == st[1] * st[4] + st[2] * st[5] + st[3] * st[6]
Near(st, L) == AllFinite(st) /\ \A j \in 1..3 : AbsI(st[j]) <= 4 * L

\* C1 as stated: every sample after a step and its projection lies exactly
\* on the sphere of radius L and has exactly no radial velocity.
C1_ExactConstraint ==
    \A c \in Callers :
        CartStepped(frame[c]) =>
            /\ Near(frame[c].state, frame[c].args.L)
            /\ RadialDefect(frame[c].state, frame[c].args.L) = 0
            /\ RadialVelocity(frame[c].state) = 0

MaxAbs3(u) ==
    LET m(a, b) == IF AbsI(a) > AbsI(b) THEN AbsI(a) ELSE AbsI(b)
    IN  m(u[1], m(u[2], u[3]))

\* the projection worked on a finite state without overflow or underflow:
\* the state returned by rk4_step and the projected state are finite and
\* the squared norm of the position is in the normal range
ProjectionInRange(fr) ==
    /\ AllFinite(fr.raw)
    /\ AllFinite(fr.state)
    /\ Normal(Dot3(fr.raw, fr.raw))

\* rounding allowances, in units in the last place
RadTol == 4
TanTol == 4

\* C1 (amended): after each step and projection that stay in range, the
\* sample satisfies both constraints up to rounding: x^2 + y^2 + z^2 is
\* within RadTol units in the last place of L^2, and the radial velocity
\* within TanTol units in the last place of L times the speed before the
\* projection.
C1_ConstraintUpToRounding ==
    \A c \in Callers :
        (CartStepped(frame[c]) /\ ProjectionInRange(frame[c])) =>
            LET st == frame[c].state
                L == frame[c].args.L
                speed == MaxAbs3(<<frame[c].raw[4], frame[c].raw[5], frame[c].raw[6]>>)
            IN  /\ Near(st, L)
                /\ (2 ^ Prec) * AbsI(RadialDefect(st, L)) <= RadTol * L * L
                /\ (2 ^ Prec) * AbsI(RadialVelocity(st))
                        <= TanTol * L * (speed + 2 ^ Prec)

\* a projected sample of a run with drag, impulse and initial angular
\* velocities that is in range and yet not exactly on the sphere
C1_Witness ==
    \E c \in Callers :
        /\ CartStepped(frame[c])
        /\ ProjectionInRange(frame[c])
        /\ frame[c].args.air_resistance # 0
        /\ HasImpulse(frame[c].args)
        /\ frame[c].args.theta_dot0 # 0
        /\ frame[c].i >= 2
        /\ Near(frame[c].state, frame[c].args.L)
        /\ RadialDefect(frame[c].state, frame[c].args.L) # 0

\* the frames of a call of pendulum3d.run, from its set-up to its return
InSphRun(fr) == fr.fn = "pendulum3d.run" /\ fr.pc \in {"loop", "done"}

\* C2: run chooses its model once, from theta0 alone.  When
\* |sin(theta0)| < 1e-6 the whole call is run_cartesian's loop and the
\* spherical derivative is never evaluated; otherwise the whole call is the
\* spherical loop and the Cartesian derivative is never evaluated, whatever
\* angles the trajectory reaches.  Each step taken evaluates the chosen
\* derivative four times.
C2_GuardDecidesOnce ==
    \A c \in Callers :
        InSphRun(frame[c]) =>
            IF Lt(Abs(Sin(frame[c].args.theta0)), SingEps)
            THEN /\ frame[c].path = "cartesian"
                 /\ frame[c].nSph = 0
                 /\ frame[c].nCart = 4 * frame[c].i
            ELSE /\ frame[c].path = "spherical"
                 /\ frame[c].nCart = 0
                 /\ frame[c].nSph = 4 * frame[c].i

\* a spherical run that has recorded, after its first sample, a polar angle
\* inside the guard's band and has taken a further step in spherical
\* coordinates
C2_Witness ==
    \E c \in Callers :
        /\ InSphRun(frame[c])
        /\ frame[c].path = "spherical"
        /\ \E k \in 2..frame[c].i :
              Lt(Abs(Sin(frame[c].arr.theta[k])), SingEps)

\* a whole call of run_cartesian as a function of its arguments: the set-up,
\* the loop run to its end, the returned arrays
RECURSIVE CartLoop(_)
CartLoop(fr) == IF InLoop(fr) THEN CartLoop(CartStep(fr)) ELSE fr

run_cartesian(a) == CartResult(CartLoop(CartEnter(a)))

\* the angles and angular velocities C3 gives for one Cartesian sample
C3_Sample(L, x, y, z, vx, vy, vz) ==
    LET theta == ArcCos(Div(Neg(z), L))
        psi == ArcTan2(y, x)
    IN  [theta |-> theta,
         psi |-> psi,
         theta_dot |->
            Div(Sub(Add(Mul(Mul(vx, Cos(theta)), Cos(psi)),
                        Mul(Mul(vy, Cos(theta)), Sin(psi))),
                    Mul(vz, Sin(theta))),
                L),
         psi_dot |->
            IF Gt(Abs(Sin(theta)), MaskEps)
            THEN Div(Add(Mul(Neg(vx), Sin(psi)), Mul(vy, Cos(psi))),
                     Mul(L, Sin(theta)))
            ELSE 0]

\* a completed call of run that took the delegated path
Delegated(fr) ==
    /\ fr.fn = "pendulum3d.run"
    /\ fr.pc = "done"
    /\ Lt(Abs(Sin(fr.args.theta0)), SingEps)

\* C3: the output of a delegated call of run is the output of run_cartesian
\* for the same arguments converted sample by sample: t and energy as they
\* are, theta = arccos(-z/L), psi = atan2(y, x), theta_dot by the projection
\* formula, and psi_dot by its quotient where |sin(theta)| > 1e-12 and 0
\* elsewhere.
C3_DelegatedOutput ==
    \A c \in Callers :
        Delegated(frame[c]) =>
            LET a == frame[c].args
                out == frame[c].ret
                res == run_cartesian(
                          [L |-> a.L, theta0 |-> a.theta0, phi0 |-> a.phi0,
                           theta_dot0 |-> a.theta_dot0, phi_dot0 |-> a.phi_dot0,
                           g |-> a.g, h |-> a.h, t_final |-> a.t_final,
                           air_resistance |-> a.air_resistance,
                           force_x |-> a.force_x, force_y |-> a.force_y,
                           force_z |-> a.force_z])
                smp(k) == C3_Sample(a.L, res.x[k], res.y[k], res.z[k],
                                    res.vx[k], res.vy[k], res.vz[k])
            IN  /\ out.t = res.t
                /\ out.energy = res.energy
                /\ DOMAIN out.theta = DOMAIN res.t
                /\ DOMAIN out.phi = DOMAIN res.t
                /\ DOMAIN out.theta_dot = DOMAIN res.t
                /\ DOMAIN out.phi_dot = DOMAIN res.t
                /\ \A k \in DOMAIN res.t :
                      /\ out.theta[k] = smp(k).theta
                      /\ out.phi[k] = smp(k).psi
                      /\ out.theta_dot[k] = smp(k).theta_dot
                      /\ out.phi_dot[k] = smp(k).psi_dot

\* a delegated call with drag and an impulse has returned a series of at
\* least three samples, one of them at the pole (psi_dot set to 0) and one
\* of them away from it with a psi_dot that is not 0
C3_Witness ==
    \E c \in Callers :
        /\ Delegated(frame[c])
        /\ HasImpulse(frame[c].args)
        /\ frame[c].args.air_resistance # 0
        /\ Len(frame[c].ret.t) >= 3
        /\ \E k \in DOMAIN frame[c].ret.t :
              ~Gt(Abs(Sin(frame[c].ret.theta[k])), MaskEps)
        /\ \E k \in DOMAIN frame[c].ret.t :
              /\ Gt(Abs(Sin(frame[c].ret.theta[k])), MaskEps)
              /\ Finite(frame[c].ret.phi_dot[k])
              /\ frame[c].ret.phi_dot[k] # 0

\* a completed call of one of the three models
Returned(fr) ==
    fr.pc = "done" /\ fr.fn \in {"pendulum.run", "pendulum3d.run", "run_cartesian"}

\* C4: every array a call of the planar, the spherical (delegated or not,
\* with or without impulse) or the Cartesian model returns has the length
\* of the returned time array.
C4_SameLength ==
    \A c \in Callers :
        Returned(frame[c]) =>
            \A f \in DOMAIN frame[c].ret :
                Len(frame[c].ret[f]) = Len(frame[c].ret.t)

\* a spherical call with an impulse has returned series of four samples
C4_Witness ==
    \E c \in Callers :
        /\ Returned(frame[c])
        /\ frame[c].fn = "pendulum3d.run"
        /\ frame[c].path = "spherical"
        /\ HasImpulse(frame[c].args)
        /\ Len(frame[c].ret.t) = 4
        /\ Len(frame[c].ret.phi_dot) = 4

\* C5 as stated: the number of samples a model returns is
\* floor(t_final/h) + 1, whether or not t_final is a multiple of h (the
\* quotient of the two values taken exactly).
C5_SampleCount ==
    \A c \in Callers :
        Returned(frame[c]) =>
            Len(frame[c].ret.t) = (frame[c].args.t_final \div frame[c].args.h) + 1

\* C6 as stated: the returned time array starts at 0, its entry i is i*h,
\* and its last entry is less than one step away from t_final.
C6_TimeGrid ==
    \A c \in Callers :
        Returned(frame[c]) =>
            LET t == frame[c].ret.t
                a == frame[c].args
            IN  /\ Len(t) >= 1
                /\ t[1] = 0
                /\ \A j \in DOMAIN t : t[j] = Mul(Num(j - 1, 1), a.h)
                /\ Lt(Abs(Sub(t[Len(t)], a.t_final)), a.h)

\* the derivative a frame's loop passes to rk4_step, and its step size
DerivOf(fr, t, s) ==
    CASE fr.path = "planar" -> PlanarDerivative(fr.args, t, s)
      [] fr.path = "spherical" -> SphDerivative(fr.args, t, s)
      [] fr.path = "cartesian" -> CartDerivative(fr.args, t, s)
      [] fr.path = "rk4test2" -> Rk4Test2Derivative(t, s)

StepOf(fr) == IF fr.path = "rk4test2" THEN Rk4Test2H ELSE fr.args.h

\* a frame in which rk4_step has been called at least once
Stepped(fr) == fr.pc \in {"loop", "done"} /\ fr.i >= 1

\* C7: the last call rk4_step(f, t, state, h) of every loop evaluated f
\* exactly four times, at (t, state), (t + h/2, state + k1/2),
\* (t + h/2, state + k2/2) and (t + h, state + k3) in this order, where k_j
\* is h times the j-th evaluation, and returned
\* state + (k1 + 2*k2 + 2*k3 + k4)/6.
C7_Rk4Stages ==
    \A c \in Callers :
        Stepped(frame[c]) =>
            LET fr == frame[c]
                h == StepOf(fr)
                t == fr.t[fr.i]
                state == fr.prev
                k(j) == VScale(h, DerivOf(fr, fr.calls[j][1], fr.calls[j][2]))
            IN  /\ Len(fr.calls) = 4
                /\ fr.calls[1] = <<t, state>>
                /\ fr.calls[2] = <<Add(t, Div(h, Two)), VAdd(state, VDiv(k(1), Two))>>
                /\ fr.calls[3] = <<Add(t, Div(h, Two)), VAdd(state, VDiv(k(2), Two))>>
                /\ fr.calls[4] = <<Add(t, h), VAdd(state, k(3))>>
                /\ fr.raw =
                      VAdd(state,
                           VDiv(VAdd(VAdd(VAdd(k(1), VScale(Two, k(2))),
                                          VScale(Two, k(3))),
                                     k(4)),
                                Six))

\* a spherical loop has taken two steps, the last one at t > 0 with four
\* evaluations at four different states and a finite result that differs
\* from the state passed in
C7_Witness ==
    \E c \in Callers :
        /\ Stepped(frame[c])
        /\ frame[c].path = "spherical"
        /\ frame[c].i >= 2
        /\ AllFinite(frame[c].raw)
        /\ frame[c].raw # frame[c].prev
        /\ Cardinality({frame[c].calls[j][2] : j \in 1..4}) = 4
        /\ frame[c].calls[2][1] # frame[c].calls[1][1]
        /\ frame[c].calls[4][1] # frame[c].calls[2][1]

\* the frames of the loop of rk4_test2.run
InRk4Test2(fr) == fr.path = "rk4test2" /\ fr.pc \in {"loop", "done"}

\* C8 as stated: under the constant derivative 1 the value after n steps
\* is x0 + n*h, for every n.
C8_ExactLine ==
    \A c \in Callers :
        InRk4Test2(frame[c]) =>
            \A n \in 0..frame[c].i :
                frame[c].arr.x[n + 1] = Add(Rk4Test2X0, Mul(Num(n, 1), Rk4Test2H))

\* C8 (amended): the value after n steps is x0 + n*h up to the rounding
\* the n steps accumulate: it differs from the exact sum by at most n units
\* in the last place of the larger of the two.
C8_LineUpToRounding ==
    \A c \in Callers :
        InRk4Test2(frame[c]) =>
            \A n \in 0..frame[c].i :
                LET x == frame[c].arr.x[n + 1]
                    exact == Rk4Test2X0 + n * Rk4Test2H
                    big == IF AbsI(x) > AbsI(exact) THEN AbsI(x) ELSE AbsI(exact)
                IN  /\ Finite(x)
                    /\ AbsI(x - exact) <= n * Ulp(big)

\* the loop of rk4_test2.run has taken three steps or more and its last
\* value is not the float x0 + n*h
C8_Witness ==
    \E c \in Callers :
        /\ InRk4Test2(frame[c])
        /\ frame[c].i >= 3
        /\ frame[c].arr.x[frame[c].i + 1]
              # Add(Rk4Test2X0, Mul(Num(frame[c].i, 1), Rk4Test2H))
        /\ frame[c].arr.x[frame[c].i + 1] # frame[c].arr.x[frame[c].i]

\* C9: the arrays a call of pendulum.run, pendulum3d.run or run_cartesian
\* returns are a function of its arguments: a completed call returns what
\* the remembered earlier call of the same function with the same arguments
\* returned, and what the other caller's completed call of it returned,
\* whatever calls were made before and however the two callers' steps
\* interleave.
C9_OutputFromArgsOnly ==
    \A c \in Callers :
        Returned(frame[c]) =>
            /\ (ref.fn = frame[c].fn /\ ref.args = frame[c].args)
                   => frame[c].ret = ref.ret
            /\ \A d \in Callers :
                  (Returned(frame[d]) /\ frame[d].fn = frame[c].fn
                       /\ frame[d].args = frame[c].args)
                      => frame[d].ret = frame[c].ret

\* a call with the arguments of the remembered call has returned while the
\* other caller is between two steps of a call with other arguments
C9_Witness ==
    \E c, d \in Callers :
        /\ c # d
        /\ Returned(frame[c])
        /\ ref.fn = frame[c].fn
        /\ ref.args = frame[c].args
        /\ Len(ref.ret.t) >= 3
        /\ InLoop(frame[d])
        /\ frame[d].i >= 1
        /\ frame[d].args # frame[c].args

\* two frames whose last calls of rk4_step had the same arguments: the same
\* derivative (the same closure over g, L and the drag), t, state and h
SameCall(f1, f2) ==
    /\ Stepped(f1)
    /\ Stepped(f2)
    /\ f1.path = f2.path
    /\ StepOf(f1) = StepOf(f2)
    /\ f1.calls[1] = f2.calls[1]
    /\ f1.path # "rk4test2" =>
          /\ f1.args.g = f2.args.g
          /\ f1.args.L = f2.args.L
          /\ f1.args.air_resistance = f2.args.air_resistance

\* calls of rk4_step with the same arguments returned the same value
SameCallSameValue ==
    \A c, d \in Callers : SameCall(frame[c], frame[d]) => frame[c].raw = frame[d].raw

\* what an iteration of caller c's loop (a call of rk4_step and, in
\* run_cartesian, the projection) leaves as it was
StepFrameOf(c) ==
    LET fr == frame[c]
        nw == frame'[c]
    IN  (fr.pc = "loop" /\ nw.pc = "loop" /\ nw.i = fr.i + 1) =>
            /\ nw.args = fr.args
            /\ nw.calls[1][1] = fr.t[fr.i + 1]
            /\ nw.calls[1][2] = nw.prev
            /\ fr.path # "rk4test2" => nw.prev = fr.state
            /\ DOMAIN nw.t = DOMAIN fr.t
            /\ \A k \in 1..(fr.i + 1) : nw.t[k] = fr.t[k]
            /\ DOMAIN nw.arr = DOMAIN fr.arr
            /\ \A f \in DOMAIN fr.arr :
                  /\ DOMAIN nw.arr[f] = DOMAIN fr.arr[f]
                  /\ \A k \in 1..(fr.i + 1) : nw.arr[f][k] = fr.arr[f][k]
            /\ \A d \in Callers \ {c} : frame'[d] = frame[d]
            /\ ref' = ref

\* C10: rk4_step has no side effects.  A step of a loop leaves the
\* arguments of the call, the state passed in, the time grid up to the
\* current index, every sample recorded so far, the other caller's frame
\* and the remembered call as they were; and calls of rk4_step with the
\* same (f, t, state, h) return the same value whatever was called in
\* between.
C10_NoSideEffects ==
    [][(\A c \in Callers : StepFrameOf(c)) /\ SameCallSameValue']_vars

\* both callers are in the Cartesian loop after their second step, their
\* last calls of rk4_step had the same arguments, and the samples recorded
\* by the first and the second step differ in position and velocity
C10_Witness ==
    /\ \A c \in Callers :
          /\ frame[c].pc = "loop"
          /\ frame[c].path = "cartesian"
          /\ frame[c].i = 2
          /\ frame[c].arr.x[2] # frame[c].arr.x[3]
          /\ frame[c].arr.vx[2] # frame[c].arr.vx[3]
          /\ frame[c].arr.vz[2] # frame[c].arr.vz[3]
    /\ SameCall(frame[1], frame[2])

\* ------------------------------------------------------------------------
\* C11: the fallback warning
\* ------------------------------------------------------------------------
\* C11: a call of pendulum3d.run shows the fallback RuntimeWarning exactly
\* when it delegates to the Cartesian solver, the first such call of the
\* process and every later one, and a call that delegates still returns
\* its arrays
C11_WarnsIffDelegates ==
    \A c \in Callers :
        InSphRun(frame[c]) =>
            /\ frame[c].shown <=> Delegates(frame[c].args)
            /\ (frame[c].pc = "done" /\ Delegates(frame[c].args)) =>
                   Len(frame[c].ret.t) = Len(frame[c].ret.theta)

\* a call of run has delegated, and not as the first of the process to do so
C11_LaterDelegation ==
    \E c \in Callers :
        /\ InSphRun(frame[c])
        /\ Delegates(frame[c].args)
        /\ registry
        /\ ~frame[c].shown
        /\ frame[c].pc = "done"
\* ------------------------------------------------------------------------
\* C12: arguments outside the physical range
\* ------------------------------------------------------------------------
InvalidArgs(a) == a.L <= 0 \/ a.h <= 0 \/ a.t_final < 0

SimFns == {"pendulum.run", "pendulum3d.run", "run_cartesian"}

\* C12: a call of one of the three models with L <= 0, h <= 0 or
\* t_final < 0 ends with an exception raised before the first integration
\* step; it never enters the loop and never returns arrays
C12_FailsFast ==
    \A c \in Callers :
        (frame[c].fn \in SimFns /\ InvalidArgs(frame[c].args)) =>
            /\ frame[c].pc = "raised"
            /\ frame[c].err \in {"arange", "sample0"}

\* a call with a rod of negative length has returned arrays of more than
\* one sample
C12_ReturnedForInvalid ==
    \E c \in Callers :
        /\ frame[c].fn \in SimFns
        /\ frame[c].args.L < 0
        /\ frame[c].pc = "done"
        /\ Len(frame[c].ret.t) > 1
\* ------------------------------------------------------------------------
\* C13: numerical blow-up
\* ------------------------------------------------------------------------
\* the state series a call fills while it integrates
StateSeries(fr) ==
    CASE fr.path = "planar" -> {fr.arr.phi, fr.arr.omega}
      [] fr.path = "spherical" ->
            {fr.arr.theta, fr.arr.phi, fr.arr.theta_dot, fr.arr.phi_dot}
      [] fr.path = "cartesian" ->
            {fr.arr.x, fr.arr.y, fr.arr.z, fr.arr.vx, fr.arr.vy, fr.arr.vz}

\* the state and energy series a completed call returns
ReturnedSeries(fr) ==
    CASE fr.fn = "pendulum.run" -> {fr.ret.phi, fr.ret.omega, fr.ret.energy}
      [] fr.fn = "pendulum3d.run" ->
            {fr.ret.theta, fr.ret.phi, fr.ret.theta_dot, fr.ret.phi_dot, fr.ret.energy}
      [] fr.fn = "run_cartesian" ->
            {fr.ret.x, fr.ret.y, fr.ret.z, fr.ret.vx, fr.ret.vy, fr.ret.vz,
             fr.ret.energy}

\* the state is non-finite at sample k
BlownUpAt(fr, k) == \E s \in StateSeries(fr) : ~Finite(s[k])

\* C13: a call whose state becomes non-finite at sample k raises nothing
\* and returns arrays of full length in which every state series and the
\* energy series are non-finite at every sample from k on; for a delegated
\* call these are the converted theta, psi, theta_dot and psi_dot
C13_BlowUpInData ==
    \A c \in Callers :
        /\ frame[c].fn \in SimFns => frame[c].pc # "raised"
        /\ (frame[c].fn \in SimFns /\ frame[c].pc = "done") =>
              \A k \in DOMAIN frame[c].t :
                  BlownUpAt(frame[c], k) =>
                      \A s \in ReturnedSeries(frame[c]) :
                          /\ Len(s) = Len(frame[c].t)
                          /\ \A j \in k..Len(s) : ~Finite(s[j])

\* a delegated call has returned whose Cartesian state was non-finite at
\* its last sample, where the returned psi_dot is 0
C13_BlowUpMasked ==
    \E c \in Callers :
        /\ frame[c].fn = "pendulum3d.run"
        /\ frame[c].path = "cartesian"
        /\ frame[c].pc = "done"
        /\ BlownUpAt(frame[c], Len(frame[c].t))
        /\ frame[c].ret.phi_dot[Len(frame[c].t)] = 0
\* ------------------------------------------------------------------------
\* C15: energy of a damped run
\* ------------------------------------------------------------------------
\* a <= b of floats: false when either is NaN
Le(a, b) == ~IsNaN(a) /\ ~IsNaN(b) /\ a <= b

\* a call of one of the three models that has recorded samples
Sampled(fr) == fr.fn \in SimFns /\ fr.pc \in {"loop", "done"}

\* C15: in a run of any of the three models with drag > 0 the recorded
\* energy never increases from one sample to the next
C15_EnergyNonIncreasing ==
    \A c \in Callers :
        (Sampled(frame[c]) /\ frame[c].args.air_resistance > 0) =>
            \A k \in 1..frame[c].i :
                Le(frame[c].arr.energy[k + 1], frame[c].arr.energy[k])

\* a planar run with drag has recorded a finite energy above the finite
\* energy of the sample before it
C15_EnergyGrew ==
    \E c \in Callers :
        /\ Sampled(frame[c])
        /\ frame[c].path = "planar"
        /\ frame[c].args.air_resistance > 0
        /\ \E k \in 1..frame[c].i :
              /\ Finite(frame[c].arr.energy[k]) /\ Finite(frame[c].arr.energy[k + 1])
              /\ frame[c].arr.energy[k + 1] > 2 * frame[c].arr.energy[k]
              /\ frame[c].arr.energy[k] > 0
\* ------------------------------------------------------------------------
\* C16, C17: the initial impulse
\* ------------------------------------------------------------------------
\* sample 0 of the arrays of a call
Sample0(fr, names) == [j \in DOMAIN names |-> fr.arr[names[j]][1]]

OnSphPath(fr) == InSphRun(fr) /\ fr.path = "spherical"

\* C16: on the path that does not delegate, sample 0 is theta0, phi0,
\* theta_dot0 + f_theta/L and phi_dot0 + f_psi/(L sin(theta0)) with
\* f_theta = Fx cos(theta0) cos(phi0) + Fy cos(theta0) sin(phi0)
\* + Fz sin(theta0) and f_psi = -Fx sin(phi0) + Fy cos(phi0); with a zero
\* impulse it is the initial conditions themselves
C16_ImpulseProjected ==
    \A c \in Callers :
        OnSphPath(frame[c]) =>
            LET a == frame[c].args
                f_theta ==
                    Add(Add(Mul(Mul(a.force_x, Cos(a.theta0)), Cos(a.phi0)),
                            Mul(Mul(a.force_y, Cos(a.theta0)), Sin(a.phi0))),
                        Mul(a.force_z, Sin(a.theta0)))
                f_psi == Add(Mul(Neg(a.force_x), Sin(a.phi0)),
                             Mul(a.force_y, Cos(a.phi0)))
                s0 == Sample0(frame[c], <<"theta", "phi", "theta_dot", "phi_dot">>)
            IN  /\ s0[1] = a.theta0
                /\ s0[2] = a.phi0
                /\ s0[3] = Add(a.theta_dot0, Div(f_theta, a.L))
                /\ s0[4] = Add(a.phi_dot0, Div(f_psi, Mul(a.L, Sin(a.theta0))))
                /\ ~HasImpulse(a) =>
                       s0 = <<a.theta0, a.phi0, a.theta_dot0, a.phi_dot0>>

\* a run on a rod of length 2 that did not delegate has taken a step, and
\* the impulse changed both angular velocities of its sample 0
C16_Witness ==
    \E c \in Callers :
        /\ OnSphPath(frame[c])
        /\ frame[c].i >= 1
        /\ frame[c].args.L = Two
        /\ HasImpulse(frame[c].args)
        /\ frame[c].arr.theta_dot[1] # frame[c].args.theta_dot0
        /\ frame[c].arr.phi_dot[1] # frame[c].args.phi_dot0

\* the arguments of a call with the impulse set to zero
NoImpulse(a) == [a EXCEPT !.force_x = 0, !.force_y = 0, !.force_z = 0]

OnCartPath(fr) == fr.path = "cartesian" /\ fr.pc \in {"loop", "done"}

\* C17: run_cartesian, called directly or by run, adds the impulse once to
\* the initial velocity and leaves the initial position alone; sample 0 of
\* the velocity and of the energy include it
C17_ImpulseAddedOnce ==
    \A c \in Callers :
        OnCartPath(frame[c]) =>
            LET a == frame[c].args
                base == CartInitState(NoImpulse(ForwardArgs(a)))
                v0 == <<Add(base[4], a.force_x), Add(base[5], a.force_y),
                        Add(base[6], a.force_z)>>
                s0 == Sample0(frame[c], <<"x", "y", "z", "vx", "vy", "vz">>)
            IN  /\ <<s0[1], s0[2], s0[3]>> = <<base[1], base[2], base[3]>>
                /\ <<s0[4], s0[5], s0[6]>> = v0
                /\ frame[c].arr.energy[1] =
                       Add(Mul(Half, Dot3(v0, v0)), Mul(a.g, Add(base[3], a.L)))

\* a run that delegated with an impulse has taken a step, and sample 0 of
\* its velocity differs from the velocity without the impulse
C17_Witness ==
    \E c \in Callers :
        /\ InSphRun(frame[c])
        /\ OnCartPath(frame[c])
        /\ frame[c].i >= 1
        /\ HasImpulse(frame[c].args)
        /\ frame[c].arr.vy[1] # CartInitState(NoImpulse(ForwardArgs(frame[c].args)))[5]
\* ------------------------------------------------------------------------
\* C18: the initial Cartesian velocity
\* ------------------------------------------------------------------------
\* the time derivative of (L sin(theta) cos(psi), L sin(theta) sin(psi),
\* -L cos(theta)) by the chain rule
ChainRuleVelocity(a) ==
    LET st == Sin(a.theta0)
        ct == Cos(a.theta0)
        sp == Sin(a.phi0)
        cp == Cos(a.phi0)
    IN  <<Mul(a.L, Sub(Mul(Mul(a.theta_dot0, ct), cp), Mul(Mul(a.phi_dot0, st), sp))),
          Mul(a.L, Add(Mul(Mul(a.theta_dot0, ct), sp), Mul(Mul(a.phi_dot0, st), cp))),
          Mul(Mul(a.L, a.theta_dot0), st)>>

\* C18: with a zero impulse the velocity of sample 0 of run_cartesian is
\* the chain-rule derivative of the position, and it is tangent to the
\* sphere, x0 vx0 + y0 vy0 + z0 vz0 = 0 (here: within TanTol units in the
\* last place of L times the speed), whatever the angles and the angular
\* velocities
C18_InitialVelocityTangent ==
    \A c \in Callers :
        (OnCartPath(frame[c]) /\ ~HasImpulse(frame[c].args)) =>
            LET a == frame[c].args
                s0 == Sample0(frame[c], <<"x", "y", "z", "vx", "vy", "vz">>)
                speed == MaxAbs3(<<s0[4], s0[5], s0[6]>>)
            IN  /\ <<s0[4], s0[5], s0[6]>> = ChainRuleVelocity(a)
                /\ AbsI(RadialVelocity(s0)) <= TanTol * a.L * (Ulp(speed) + 1)

\* a run without impulse started at theta0 = 1/2 with theta_dot0 = 1/2, and
\* the radial velocity of its sample 0 exceeds a tenth of L times the speed
C18_RadialStart ==
    \E c \in Callers :
        /\ OnCartPath(frame[c])
        /\ ~HasImpulse(frame[c].args)
        /\ frame[c].args.theta0 = Half
        /\ frame[c].args.theta_dot0 = Half
        /\ frame[c].args.phi_dot0 = 0
        /\ 10 * AbsI(RadialVelocity(Sample0(frame[c], <<"x", "y", "z", "vx", "vy", "vz">>)))
              > frame[c].args.L
                  * MaxAbs3(<<frame[c].arr.vx[1], frame[c].arr.vy[1], frame[c].arr.vz[1]>>)
\* ------------------------------------------------------------------------
\* C19: the planar model with default arguments
\* ------------------------------------------------------------------------
\* the time grid of a run of 10 s at h = 0.01
TenSecondGrid == Arange(Add(Num(10, 1), Num(1, 100)), Num(1, 100))

DefaultCall(fr) == fr.fn = "pendulum.run" /\ fr.args = PlanarDefaults

\* C19: the planar model called with its default arguments simulates 10 s
\* at h = 0.01: its time grid has the samples of such a run (1001 of
\* them), it starts at 0 and it ends at 10
C19_DefaultRun ==
    \A c \in Callers :
        DefaultCall(frame[c]) =>
            /\ frame[c].args.h = Num(1, 100)
            /\ frame[c].args.t_final = Num(10, 1)
            /\ frame[c].pc = "done" =>
                  /\ Len(frame[c].ret.t) = Len(TenSecondGrid)
                  /\ frame[c].ret.t[1] = 0
                  /\ frame[c].ret.t[Len(frame[c].ret.t)] = Num(10, 1)

\* the call with default arguments has returned, with more samples than a
\* run of 10 s has and a final time of 30
C19_ThirtySeconds ==
    \E c \in Callers :
        /\ DefaultCall(frame[c])
        /\ frame[c].pc = "done"
        /\ Len(frame[c].ret.t) > Len(TenSecondGrid)
        /\ frame[c].ret.t[Len(frame[c].ret.t)] = Num(30, 1)
\* ------------------------------------------------------------------------
\* C20: resuming a spherical run
\* ------------------------------------------------------------------------
\* the arguments of the call that resumes the returned trajectory out at
\* its sample k: that state, no impulse, everything else as before
ResumeArgs(a, out, k) ==
    [NoImpulse(a) EXCEPT !.theta0 = out.theta[k], !.phi0 = out.phi[k],
                         !.theta_dot0 = out.theta_dot[k], !.phi_dot0 = out.phi_dot[k]]

\* |sin(theta)| >= 1e-6: the state does not trigger the delegation
Resumable(theta) == ~IsNaN(Sin(theta)) /\ Abs(Sin(theta)) >= SingEps

SphSeries == <<"theta", "phi", "theta_dot", "phi_dot", "energy">>

\* a == b of floats: false when either is NaN
FloatEq(a, b) == ~IsNaN(a) /\ ~IsNaN(b) /\ a = b

\* the completed calls of run that did not delegate
SphDone(fr) == OnSphPath(fr) /\ fr.pc = "done"

\* C20 as stated: the samples of the resumed run compare equal (==) to the
\* samples k, k + 1, ... of the original run
C20_ResumeEqual ==
    \A c \in Callers :
        SphDone(frame[c]) =>
            \A k \in DOMAIN frame[c].ret.t :
                Resumable(frame[c].ret.theta[k]) =>
                    LET out == frame[c].ret
                        res == run(ResumeArgs(frame[c].args, out, k))
                    IN  \A j \in DOMAIN res.t :
                            k - 1 + j <= Len(out.t) =>
                                \A q \in DOMAIN SphSeries :
                                    FloatEq(res[SphSeries[q]][j],
                                            out[SphSeries[q]][k - 1 + j])

\* C20 (amended): for a run that did not delegate and a sample k with
\* |sin(theta[k])| >= 1e-6, the run that starts from the state of sample k
\* with no impulse and the same L, g, h and drag returns the values of the
\* samples k, k + 1, ... of the original, state and energy: the same
\* number where the original is a number, NaN where it is NaN
C20_ResumeIdentical ==
    \A c \in Callers :
        SphDone(frame[c]) =>
            \A k \in DOMAIN frame[c].ret.t :
                Resumable(frame[c].ret.theta[k]) =>
                    LET out == frame[c].ret
                        res == run(ResumeArgs(frame[c].args, out, k))
                    IN  \A j \in DOMAIN res.t :
                            k - 1 + j <= Len(out.t) =>
                                \A q \in DOMAIN SphSeries :
                                    res[SphSeries[q]][j] = out[SphSeries[q]][k - 1 + j]

\* a run with impulse that did not delegate has returned at least three
\* samples, all finite, its second sample can be resumed from, and the
\* third differs from the second in both angles
C20_Witness ==
    \E c \in Callers :
        /\ SphDone(frame[c])
        /\ HasImpulse(frame[c].args)
        /\ Len(frame[c].ret.t) >= 3
        /\ \A k \in 1..3 : \A q \in DOMAIN SphSeries :
              Finite(frame[c].ret[SphSeries[q]][k])
        /\ Resumable(frame[c].ret.theta[2])
        /\ frame[c].ret.theta[3] # frame[c].ret.theta[2]
        /\ frame[c].ret.phi[3] # frame[c].ret.phi[2]
\* ------------------------------------------------------------------------
\* C21: set_state_recursive
\* ------------------------------------------------------------------------
\* the widgets of the tree below widget, itself included: the closure of
\* the set S under winfo_children
RECURSIVE WidgetClosure(_, _)
WidgetClosure(ws, S) ==
    LET T == S \cup {ws[n].children[j] : <<n, j>> \in
                        {<<n, j>> \in S \X Widget : j <= Len(ws[n].children)}}
    IN  IF T = S THEN S ELSE WidgetClosure(ws, T)

WidgetTree(ws, widget) == WidgetClosure(ws, {widget})

\* C21: after set_state_recursive(widget, state) every widget of the tree
\* below widget, at any depth, has the given state, whatever state an
\* earlier call gave it, except the widgets whose configure raises
\* TclError: these keep their state and their descendants are updated all
\* the same; the widgets outside the tree keep theirs
C21_SetsWholeTree ==
    widgets.last.widget # 0 =>
        \A n \in Widget :
            widgets.w[n].state =
                IF n \in WidgetTree(widgets.w, widgets.last.widget) /\ ~widgets.w[n].raises
                THEN widgets.last.state
                ELSE widgets.last.before[n].state

\* the last call was made on the root of a tree of depth three or more with
\* another state than a call before it; a widget between the root and a
\* leaf raised, and the leaf below it went from the earlier state to the
\* new one
C21_Witness ==
    /\ widgets.last.widget = 1
    /\ \E m \in Widget, n \in Widget :
          /\ m # 1
          /\ widgets.w[m].raises
          /\ \E j \in 1..Len(widgets.w[m].children) : widgets.w[m].children[j] = n
          /\ widgets.w[n].state = widgets.last.state
          /\ widgets.last.before[n].state \in WidgetStates \ {widgets.last.state}
\* ------------------------------------------------------------------------
\* C22: the samples a loop records
\* ------------------------------------------------------------------------
StateNames(fr) ==
    CASE fr.path = "planar" -> <<"phi", "omega">>
      [] fr.path = "spherical" -> <<"theta", "phi", "theta_dot", "phi_dot">>
      [] fr.path = "cartesian" -> <<"x", "y", "z", "vx", "vy", "vz">>

\* the state recorded as sample k
SampleAt(fr, k) == [j \in DOMAIN StateNames(fr) |-> fr.arr[StateNames(fr)[j]][k]]

\* the state a model starts from, the impulse at t = 0 included
InitialState(fr) ==
    CASE fr.path = "planar" -> <<fr.args.phi0, 0>>
      [] fr.path = "spherical" -> SphInitState(fr.args)
      [] fr.path = "cartesian" -> CartInitState(ForwardArgs(fr.args))

\* the energy a model assigns to a state
EnergyOf(fr, st) ==
    CASE fr.path = "planar" -> PlanarEnergy(fr.args, st[1], st[2])
      [] fr.path = "spherical" -> spherical_energy(st[1], st[3], st[4], fr.args.L, fr.args.g)
      [] fr.path = "cartesian" -> CartEnergy(fr.args, st)

\* one call of rk4_step on the state st at time t, followed in the
\* Cartesian model by the projection onto the constraint
AfterOneStep(fr, t, st) ==
    LET r == rk4_step([kind |-> fr.path, a |-> fr.args], t, st, fr.args.h)
    IN  IF fr.path = "cartesian" THEN CartProject(fr.args, r) ELSE r

\* derivative evaluations made by the call so far
Evaluations(fr) == fr.nPlanar + fr.nSph + fr.nCart

\* C22: in every model loop sample 0 is the initial state (after the
\* impulse at t = 0) with its energy; sample i + 1 is sample i after one
\* call of rk4_step at t[i] with step h (and, in the Cartesian model, one
\* projection), with the energy of that state; the samples are recorded in
\* order, none twice and none skipped: after i steps exactly the samples
\* 0..i are written, and the call returns with all of them written
C22_SampleChain ==
    \A c \in Callers :
        Sampled(frame[c]) =>
            LET fr == frame[c]
                n == Len(fr.t)
            IN  /\ fr.i + 1 <= n
                /\ SampleAt(fr, 1) = InitialState(fr)
                /\ fr.arr.energy[1] = EnergyOf(fr, InitialState(fr))
                /\ \A k \in 1..fr.i :
                      /\ SampleAt(fr, k + 1) = AfterOneStep(fr, fr.t[k], SampleAt(fr, k))
                      /\ fr.arr.energy[k + 1] = EnergyOf(fr, SampleAt(fr, k + 1))
                /\ \A k \in (fr.i + 2)..n :
                      /\ \A j \in DOMAIN StateNames(fr) : SampleAt(fr, k)[j] = 0
                      /\ fr.arr.energy[k] = 0
                /\ Evaluations(fr) = 4 * fr.i
                /\ fr.i >= 1 => fr.calls[1][1] = fr.t[fr.i]
                /\ fr.pc = "done" => fr.i = n - 1

\* a planar run has returned three or more samples whose energies are
\* finite and change from each sample to the next
C22_Witness ==
    \E c \in Callers :
        /\ Sampled(frame[c])
        /\ frame[c].path = "planar"
        /\ frame[c].pc = "done"
        /\ frame[c].i >= 2
        /\ \A k \in 1..frame[c].i :
              /\ Finite(frame[c].arr.energy[k]) /\ Finite(frame[c].arr.energy[k + 1])
              /\ frame[c].arr.energy[k] # frame[c].arr.energy[k + 1]
\* ------------------------------------------------------------------------
\* C23: every call runs the whole time grid
\* ------------------------------------------------------------------------
\* a call of a model that has begun
Called(fr) == fr.fn \in SimFns /\ fr.pc # "idle"

\* h > 0 and a finite t_final >= 0
GridArgs(a) == Gt(a.h, 0) /\ Finite(a.t_final) /\ Le(0, a.t_final)

\* the next thing the call of caller c does is a step of its loop
CanStep(c) ==
    InLoop(frame[c]) /\ frame[c].path \in {"planar", "spherical", "cartesian"}

\* the next thing the call of caller c does is to return
CanReturn(c) == LoopDone(frame[c]) /\ frame[c].fn \in SimFns

\* the call of caller c has made i steps of 4 derivative evaluations each, is
\* within the time grid, steps on while an index is left and returns after
\* the last one
OnFullRun(c) ==
    LET fr == frame[c]
        n == Len(fr.t)
    IN  /\ fr.pc \in {"loop", "done"}
        /\ n >= 1
        /\ fr.i <= n - 1
        /\ Evaluations(fr) = 4 * fr.i
        /\ fr.pc = "done" => fr.i = n - 1
        /\ fr.pc = "loop" /\ fr.i < n - 1 => CanStep(c) /\ ~CanReturn(c)
        /\ fr.pc = "loop" /\ fr.i = n - 1 => CanReturn(c) /\ ~CanStep(c)

\* C23 as stated: every call with h > 0 and a finite t_final >= 0 makes
\* exactly len(t) - 1 calls of rk4_step, of 4 derivative evaluations each,
\* and then returns; it never stops early and never runs past the grid.
C23_FullTrajectory ==
    \A c \in Callers :
        Called(frame[c]) /\ GridArgs(frame[c].args) => OnFullRun(c)

\* C23, amended: the same for every such call whose rod length is not 0
C23_FullTrajectoryNonzeroL ==
    \A c \in Callers :
        Called(frame[c]) /\ GridArgs(frame[c].args) /\ frame[c].args.L # 0
            => OnFullRun(c)

\* a call with h > 0, t_final >= 0 and L # 0 has returned after two or more
\* steps
C23_Witness ==
    \E c \in Callers :
        /\ Called(frame[c]) /\ GridArgs(frame[c].args)
        /\ frame[c].args.L # 0
        /\ frame[c].pc = "done"
        /\ frame[c].i = Len(frame[c].t) - 1
        /\ frame[c].i >= 2
        /\ Evaluations(frame[c]) = 4 * (Len(frame[c].t) - 1)
\* ------------------------------------------------------------------------
\* C24: the division by L * sin(theta0)
\* ------------------------------------------------------------------------
\* the call has divided by L * sin(theta0): it is a call of run that set up
\* the spherical loop with an impulse that is not zero
DividedBySin(fr) ==
    fr.fn = "pendulum3d.run" /\ fr.path = "spherical" /\ HasImpulse(fr.args)

\* C24: whenever run divides by L * sin(theta0) to add the impulse to the
\* azimuthal velocity, |sin(theta0)| >= 1e-6; a call with an impulse and
\* |sin(theta0)| < 1e-6 runs the loop of run_cartesian and never divides
C24_DivisionGuarded ==
    \A c \in Callers :
        LET fr == frame[c]
        IN  /\ DividedBySin(fr) => Le(SingEps, Abs(Sin(fr.args.theta0)))
            /\ /\ fr.fn = "pendulum3d.run"
                /\ fr.pc \in {"loop", "done"}
                /\ HasImpulse(fr.args)
                /\ Lt(Abs(Sin(fr.args.theta0)), SingEps)
                => fr.path = "cartesian"

\* a call of run close to the band of the guard has divided a projected
\* impulse by L * sin(theta0), and the azimuthal velocity it starts with is
\* finite and not the one passed in
C24_Witness ==
    \E c \in Callers :
        /\ DividedBySin(frame[c])
        /\ frame[c].pc \in {"loop", "done"}
        /\ Lt(Abs(Sin(frame[c].args.theta0)), 8 * SingEps)
        /\ Finite(frame[c].arr.phi_dot[1])
        /\ frame[c].arr.phi_dot[1] # frame[c].args.phi_dot0
\* ------------------------------------------------------------------------
\* C26: the energy and the angles returned on the delegated path
\* ------------------------------------------------------------------------
\* a call of run that delegated to run_cartesian has returned
DelegatedDone(fr) == fr.fn = "pendulum3d.run" /\ fr.path = "cartesian" /\ fr.pc = "done"

\* spherical_energy of the angles returned as sample k
AngleEnergy(fr, k) ==
    spherical_energy(fr.ret.theta[k], fr.ret.theta_dot[k], fr.ret.phi_dot[k],
                     fr.args.L, fr.args.g)

\* sample k is finite and its polar angle is clear of the poles
ClearOfPole(fr, k) ==
    /\ Finite(fr.ret.energy[k]) /\ Finite(AngleEnergy(fr, k))
    /\ Gt(Abs(Sin(fr.ret.theta[k])), 2 ^ Prec)

\* units in the last place of the energy within which two energies agree
EnergyTol == 4

\* the distance of the returned energy of sample k from AngleEnergy
EnergyGap(fr, k) == AbsI(fr.ret.energy[k] - AngleEnergy(fr, k))

\* C26: on the delegated path of run the energy returned for a sample away
\* from the poles equals spherical_energy of the angles and angular
\* velocities returned for that sample (to within EnergyTol units in the
\* last place, the rounding of the two formulas)
C26_EnergyMatchesAngles ==
    \A c \in Callers :
        DelegatedDone(frame[c]) =>
            \A k \in 1..Len(frame[c].ret.t) :
                ClearOfPole(frame[c], k) =>
                    EnergyGap(frame[c], k)
                        <= EnergyTol * Ulp(AbsI(frame[c].ret.energy[k]))

\* a delegated call has returned a sample away from the poles whose energy
\* is further from spherical_energy of its angles than twice the tolerance
C26_EnergyApart ==
    \E c \in Callers :
        /\ DelegatedDone(frame[c])
        /\ \E k \in 1..Len(frame[c].ret.t) :
              /\ ClearOfPole(frame[c], k)
              /\ EnergyGap(frame[c], k)
                    > 2 * EnergyTol * Ulp(AbsI(frame[c].ret.energy[k]))
\* ------------------------------------------------------------------------
\* C27: spherical -> Cartesian -> spherical
\* ------------------------------------------------------------------------
\* the series of run_cartesian have been converted back to angles
Converted(fr) == fr.fn = "to_spherical" /\ fr.pc = "done"

\* the initial conditions passed in, and sample 0 after the round trip
Original(fr) ==
    <<fr.args.theta0, fr.args.phi0, fr.args.theta_dot0, fr.args.phi_dot0>>
RoundTrip(fr) ==
    <<fr.ret.theta[1], fr.ret.phi[1], fr.ret.theta_dot[1], fr.ret.phi_dot[1]>>

\* the Cartesian energy of the converted state, and spherical_energy of the
\* initial conditions
ConvertedEnergy(fr) == fr.arr.energy[1]
OriginalEnergy(fr) ==
    spherical_energy(fr.args.theta0, fr.args.theta_dot0, fr.args.phi_dot0,
                     fr.args.L, fr.args.g)

RoundTripTol == 4
RoundTripBand == 400

\* a and b agree to within k units in the last place of b
Within(a, b, k) == Finite(a) /\ Finite(b) /\ AbsI(a - b) <= k * Ulp(AbsI(b))

\* the polar angle passed in is away from both poles
AwayFromPoles(fr) == Le(RoundTripBand, Abs(Sin(fr.args.theta0)))

Evaluated(fr) == fr.fn = "run_cartesian.derivative" /\ fr.pc = "done"

Position(fr) == <<fr.state[1], fr.state[2], fr.state[3]>>
Velocity(fr) == <<fr.state[4], fr.state[5], fr.state[6]>>
Acceleration(fr) == <<fr.ret[4], fr.ret[5], fr.ret[6]>>

\* r.a + |v|^2, half the second derivative of |r|^2
SecondDerivative(fr) ==
    Add(Dot3(Position(fr), Acceleration(fr)), Dot3(Velocity(fr), Velocity(fr)))

\* C28 as stated: at every state on the sphere with a tangent velocity the
\* acceleration the derivative returns satisfies r.a + |v|^2 == 0, without
\* drag and with it.
C28_ConstraintKept ==
    \A c \in Callers : Evaluated(frame[c]) => SecondDerivative(frame[c]) = 0
\* units in the last place of the terms of r.a + |v|^2 within which it is 0
ConstraintTol == 6

\* the size of the terms that cancel in r.a + |v|^2: |v|^2 and g |z|
TermSize(fr) ==
    AbsI(Dot3(Velocity(fr), Velocity(fr))) + AbsI(Mul(fr.args.g, fr.state[3]))

\* C28, amended: at every state on the sphere with a tangent velocity the
\* acceleration the derivative returns satisfies r.a + |v|^2 = 0 up to
\* rounding (ConstraintTol units in the last place of its terms), without
\* drag and with it
C28_ConstraintKeptRounded ==
    \A c \in Callers :
        Evaluated(frame[c]) =>
            /\ Finite(SecondDerivative(frame[c]))
            /\ AbsI(SecondDerivative(frame[c])) <= ConstraintTol * Ulp(TermSize(frame[c]))

\* the derivative has been evaluated with drag at a moving state off the
\* axes, where rounding leaves r.a + |v|^2 different from 0
C28_Witness ==
    \E c \in Callers :
        /\ Evaluated(frame[c])
        /\ frame[c].args.air_resistance # 0
        /\ \A j \in 1..3 : Position(frame[c])[j] # 0
        /\ Dot3(Velocity(frame[c]), Velocity(frame[c])) # 0
        /\ SecondDerivative(frame[c]) # 0
\* ------------------------------------------------------------------------
\* C25: when a press of the impulse button changes anything
\* ------------------------------------------------------------------------
\* a press of the button has run to its end
Pressed == gui.busy = "idle" /\ gui.last.outcome # "none"

\* the conditions under which an impulse is applied, for what the press found
ImpulseConditions(b) ==
    /\ b.option = "3D Pendulum"
    /\ b.data # NoData
    /\ b.running
    /\ 0 < b.data.frame /\ b.data.frame < Len(b.data.t) - 10
    /\ "force" \notin b.invalid
    /\ \A j \in 1..3 : ~Gt(Abs(b.force[j]), MaxImpulse)
    /\ \E j \in 1..3 : ~Lt(Abs(b.force[j]), MinImpulse)
    /\ StateAccepted(StateAtFrame(b.data))

SamplesKept == gui.data = gui.last.before.data
ImpulseKept ==
    gui.force = gui.last.before.force /\ gui.invalid = gui.last.before.invalid

\* C25 as stated: a press changes nothing (no recorded sample is modified and
\* the impulse variables keep their values) unless the 3D pendulum is
\* selected, data exists, the animation runs, 0 < f < len(t) - 10, no
\* component exceeds 50, one component is at least 0.001 and the state at
\* frame f is finite and within the limits; after an applied impulse the
\* three impulse variables are 0.
C25_NothingUnlessAccepted ==
    /\ (Pressed /\ ~ImpulseConditions(gui.last.before)) => (SamplesKept /\ ImpulseKept)
    /\ (Pressed /\ gui.last.outcome = "applied") => gui.force = <<0, 0, 0>>

\* C25, amended: a press changes nothing unless the conditions hold, except
\* that when reading a simulation parameter raises, the three impulse
\* variables are reset to 0 and no sample is modified; after an applied
\* impulse the three impulse variables are 0
C25_NothingUnlessAcceptedOrError ==
    /\ (Pressed /\ ~ImpulseConditions(gui.last.before)) =>
            /\ SamplesKept
            /\ ImpulseKept \/ (gui.last.outcome = "error" /\ gui.force = <<0, 0, 0>>)
    /\ (Pressed /\ gui.last.outcome = "error") => SamplesKept
    /\ (Pressed /\ gui.last.outcome = "applied") => gui.force = <<0, 0, 0>>

\* the button was pressed with an impulse entered and the animation paused
\* in the middle of the simulation, and the press was turned down
C25_Witness ==
    /\ Pressed
    /\ gui.last.outcome = "paused"
    /\ gui.force = <<0, Num(1, 4), 0>>
    /\ 0 < gui.data.frame /\ gui.data.frame < Len(gui.data.t) - 10
    /\ StateAccepted(StateAtFrame(gui.data))
\* ------------------------------------------------------------------------
\* C29, C30: the samples an applied impulse writes
\* ------------------------------------------------------------------------
\* a press of the button has applied the impulse
Applied == Pressed /\ gui.last.outcome = "applied"

\* the frame of the press; index k of the source is position k + 1
PressFrame == gui.last.before.data.frame

\* position k of a series is sample k - PressFrame of the trajectory run
\* returned to the press
FromResimulation(key, k) ==
    /\ k - PressFrame <= Len(gui.last.out.t)
    /\ gui.data.s[key][k] =
          SeriesSample(key, ClampedL(gui), ClampedG(gui), ClampedDrag(gui), gui.last.out,
                       k - PressFrame)

\* C29 as stated: after an applied impulse at frame f every sample with index
\* f .. len(t) - 1 of every series comes from the re-simulated trajectory.
C29_AllResimulated ==
    Applied =>
        \A key \in SeriesKeys :
            \A k \in PressFrame + 1 .. Len(gui.data.t) : FromResimulation(key, k)

\* an impulse was applied and has changed the samples of the angular
\* velocity up to index len(t) - 6, which come from the new trajectory; its
\* last five samples are those of the trajectory before the impulse, and the
\* one at index len(t) - 5 differs from the sample of the new trajectory
C29_StaleTail ==
    /\ Applied
    /\ \A k \in PressFrame + 1 .. Len(gui.data.t) - 5 :
          FromResimulation("Angular velocity", k)
    /\ \E k \in PressFrame + 1 .. Len(gui.data.t) - 5 :
          gui.data.s["Angular velocity"][k] #
              gui.last.before.data.s["Angular velocity"][k]
    /\ \A k \in Len(gui.data.t) - 4 .. Len(gui.data.t) :
          gui.data.s["Angular velocity"][k] =
              gui.last.before.data.s["Angular velocity"][k]
    /\ Len(gui.data.t) - 4 - PressFrame <= Len(gui.last.out.t)
    /\ ~FromResimulation("Angular velocity", Len(gui.data.t) - 4)

\* C30: after a press of the button at frame f, applied or turned down, every
\* series has the length it had, the samples with index < f are unchanged and
\* the time array is unchanged
C30_HistoryKept ==
    (Pressed /\ gui.last.before.data # NoData) =>
        /\ gui.data.t = gui.last.before.data.t
        /\ \A key \in SeriesKeys :
              /\ Len(gui.data.s[key]) = Len(gui.last.before.data.s[key])
              /\ \A k \in 1..PressFrame :
                    gui.data.s[key][k] = gui.last.before.data.s[key][k]

\* an impulse was applied at frame 3 and has changed the sample of the
\* angular velocity at that frame
C30_Witness ==
    /\ Applied
    /\ PressFrame = 3
    /\ gui.data.s["Angular velocity"][PressFrame + 1] #
          gui.last.before.data.s["Angular velocity"][PressFrame + 1]
====
